---------------------------- MODULE Spec2Model ----------------------------
(***************************************************************************)
(* A model of the rally_bot route discovery and notification engine:       *)
(*   - StationDataFetcher.get_json_from_url, the retrying HTTP fetch       *)
(*     (src/data_fetcher.py), as the state machine of its retry loop;      *)
(*   - the discovery cycle of RoadsurferBot (src/run_bot.py): station      *)
(*     list, station details, the walk over (origin, destination) edges,   *)
(*     the per-route notification callback, the snapshot save and the      *)
(*     reconciliation of the notification history.                         *)
(* Times are in tenths of a second.                                        *)
(***************************************************************************)
EXTENDS Integers, Sequences, FiniteSets, TLC

VARIABLES
    \* ---- get_json_from_url (one call at a time; it is synchronous) ----
    fetch_script,   \* what the upstream answers, request after request
    fetch_pos,      \* index in fetch_script of the next answer
    fetch_pc,       \* "idle" | "try" | "done"
    attempt,        \* the loop variable of `for attempt in range(max_retries)`
    fetch_trace,    \* the sleeps and requests of the current call, in order
    fetch_result,   \* "unset" | "payload" | "None"
    fetch_calls,    \* calls started so far
    fetcher_log,    \* the sleeps and requests of the fetcher object, all calls
    \* ---- RoadsurferBot (run_bot.py) ----
    notification_history,  \* self.notification_history: user -> list of route ids
    history_file,          \* notification_history.json
    user_favorites,        \* self.user_favorites, in insertion order of the keys
    user_date_filters,     \* self.user_date_filters: user -> list of ranges
    bot_stations,          \* self.stations_with_returns of the bot
    last_update_time,      \* 0: never updated, 1: a timestamp
    db_file,               \* station_routes.json
    \* ---- StationDataFetcher (data_fetcher.py) ----
    valid_stations,        \* self.valid_stations
    stations_data,         \* self.stations_data: id -> station
    swr_lists,             \* the list objects self.stations_with_returns was bound to
    swr_cur,               \* the one it is bound to now (0: the list of __init__)
    output_data,           \* self.output_data
    \* ---- the upstream catalog and the event loop ----
    upstream,              \* what the three endpoints answer
    store_faulty,          \* whether a write of notification_history.json can fail
    task,                  \* the locals and position of each discovery coroutine
    running,               \* the coroutine that holds the event loop, or "none"
    cycle_log,             \* the notification events of each cycle, in order
    outcome,               \* "running" | "completed" | "failed" | "crashed", of each cycle
    cycles,                \* cycles started
    user_ops,              \* chat handlers run
    job_queue,             \* the pending runs of the auto-update job, and how the
                           \* last run ended
    \* ---- a function of the bot called on its own ----
    fn_call,               \* the function and its arguments
    fn_result              \* <<>> until it returns, then <<what it returned>>

fetchVars == <<fetch_script, fetch_pos, fetch_pc, attempt, fetch_trace,
               fetch_result, fetch_calls, fetcher_log>>

botVars == <<notification_history, history_file, user_favorites,
             user_date_filters, bot_stations, last_update_time, db_file>>

fetcherVars == <<valid_stations, stations_data, swr_lists, swr_cur, output_data>>

loopVars == <<upstream, store_faulty, task, running, cycle_log, outcome, cycles, user_ops,
             job_queue>>

pureVars == <<fn_call, fn_result>>

vars == <<fetchVars, botVars, fetcherVars, loopVars, pureVars>>

(***************************************************************************)
(* Bounds of the model.                                                    *)
(***************************************************************************)
MaxResp == 4
MaxCycles == 2
MaxUserOps == 1
\* cycles and chat handlers together
MaxOps == 2
MaxWindows == 2
MaxRanges == 2
\* characters of a string given to cleanup_special_characters
MaxLen == 3

(***************************************************************************)
(* StationDataFetcher settings (src/data_fetcher.py:35-37).                *)
(***************************************************************************)
request_delay == 1
max_retries == 3
retry_delay == 50

Pow2(n) == 2 ^ n

\* What one request can meet: a 200 with a JSON body, a 200 whose body does not
\* parse (json.loads raises ValueError), HTTP 429, another 4xx status and a
\* 5xx status (urlopen raises HTTPError for each of the three), a response
\* whose status is not 200 without an exception, and a transport failure
\* (URLError, timeout).
Responses ==
    {"ok", "badjson", "s429", "httperr", "s500", "non200", "transport"}

Sleep(n) == [op |-> "sleep", t |-> n]
Request(r) == [op |-> "request", resp |-> r]

\* The requests of a trace.
RECURSIVE CountRequests(_)
CountRequests(tr) ==
    IF tr = <<>> THEN 0
    ELSE (IF Head(tr).op = "request" THEN 1 ELSE 0) + CountRequests(Tail(tr))

\* A loop whose first attempt would not wait.
WaitsOnlyBeforeRetry(a) ==
    IF a > 0 THEN retry_delay * Pow2(a - 1) ELSE 0

\* The wait at the top of an iteration (data_fetcher.py:314-321).
PreAttemptWait(a) ==
    IF a > 0 THEN retry_delay * Pow2(a - 1) ELSE request_delay

\* The wait of the two exception handlers before `continue` (336, 349).
HandlerWait(a) == retry_delay * Pow2(a)

\* A retry that would not be counted.
SameAttempt(a) == a

\* `for attempt in range(self.max_retries)` (311): the next value of the
\* loop variable.
NextAttempt(a) == a + 1

\* `if attempt < self.max_retries - 1` (335, 348).
MayRetry(a) == a < max_retries - 1

\* A loop that would also give up on the first transport failure.
ReturnsAtOnceOrTransport(r) ==
    r \in {"ok", "non200", "httperr", "s500", "transport"}

\* A loop that would treat every HTTP error status as it treats 429.
ReturnsAtOnceUnlessHttpError(r) == r \in {"ok", "non200"}

\* A response that the loop answers by returning at once: the 200 whose body
\* parses (331), the status that is not 200 (326-328), and an HTTPError whose
\* code is not 429, 4xx and 5xx alike (343-345).
ReturnsAtOnce(r) == r \in {"ok", "non200", "httperr", "s500"}

ResultOf(r) == IF r = "ok" THEN "payload" ELSE "None"

(***************************************************************************)
(* Text.  A string is a sequence of characters; a character outside ASCII  *)
(* is named ("a-uml" is a with diaeresis, "lsquo" a typographic quote).    *)
(***************************************************************************)
\* The replacement table of cleanup_special_characters (data_fetcher.py:58-65).
Replacement(c) ==
    CASE c = "a-uml" -> <<"a", "e">>
      [] c = "o-uml" -> <<"o", "e">>
      [] c = "u-uml" -> <<"u", "e">>
      [] c = "eszett" -> <<"s", "s">>
      [] c = "A-uml" -> <<"A", "e">>
      [] c = "O-uml" -> <<"O", "E">>
      [] c = "U-uml" -> <<"U", "E">>
      [] c = "A-acute" -> <<"A">>
      [] c = "E-acute" -> <<"E">>
      [] c = "I-acute" -> <<"I">>
      [] c = "O-acute" -> <<"O">>
      [] c = "U-acute" -> <<"U">>
      [] c = "a-acute" -> <<"a">>
      [] c = "e-acute" -> <<"e">>
      [] c = "i-acute" -> <<"i">>
      [] c = "o-acute" -> <<"o">>
      [] c = "u-acute" -> <<"u">>
      [] c = "o-stroke" -> <<"o", "e">>
      [] c = "O-stroke" -> <<"O", "E">>
      [] c \in {"lsquo", "rsquo"} -> <<"'">>
      [] c \in {"ldquo", "rdquo"} -> <<"dquote">>
      [] c \in {",", ";", ":", "!", "?", "."} -> <<>>
      [] c \in {"-", "_", "/", "backslash", "|"} -> <<" ">>
      [] OTHER -> <<c>>

RECURSIVE ReplaceAll(_)
ReplaceAll(s) ==
    IF s = <<>> THEN <<>> ELSE Replacement(Head(s)) \o ReplaceAll(Tail(s))

\* data_fetcher.py:69: parentheses and quotes are removed.
RECURSIVE RemoveQuotes(_)
RemoveQuotes(s) ==
    IF s = <<>> THEN <<>>
    ELSE (IF Head(s) \in {"(", ")", "'", "dquote"} THEN <<>> ELSE <<Head(s)>>)
         \o RemoveQuotes(Tail(s))

IsSpace(c) == c \in {" ", "tab", "newline"}

\* data_fetcher.py:70-71: " ".join(address.split()).
RECURSIVE JoinWords(_, _)
JoinWords(s, pendingSpace) ==
    IF s = <<>> THEN <<>>
    ELSE IF IsSpace(Head(s)) THEN JoinWords(Tail(s), TRUE)
    ELSE (IF pendingSpace THEN <<" ">> ELSE <<>>) \o <<Head(s)>>
         \o JoinWords(Tail(s), FALSE)

RECURSIVE DropLeadingSpace(_)
DropLeadingSpace(s) ==
    IF s # <<>> /\ IsSpace(Head(s)) THEN DropLeadingSpace(Tail(s)) ELSE s

\* A cleanup that would normalise the whitespace before it replaces characters.
CleanupSplitFirst(address) ==
    IF address = <<>> THEN address
    ELSE RemoveQuotes(ReplaceAll(JoinWords(DropLeadingSpace(address), FALSE)))

cleanup_special_characters(address) ==
    IF address = <<>> THEN address
    ELSE JoinWords(DropLeadingSpace(RemoveQuotes(ReplaceAll(address))), FALSE)

(***************************************************************************)
(* Dates.  A date string is its calendar date and the format it is written *)
(* in: "iso" an upstream ISO-8601 timestamp, "ymd" YYYY-MM-DD, "dmy"       *)
(* dd/mm/YYYY, "bad" a string no format parses.                            *)
(***************************************************************************)
DateStr(f, y, m, d) == [fmt |-> f, y |-> y, m |-> m, d |-> d]
BadDate == DateStr("bad", 0, 0, 0)

\* datetime.strptime(s[:10], "%Y-%m-%d") succeeds (data_fetcher.py:171-172).
ParsesAsIsoDate(s) == s.fmt \in {"iso", "ymd"}
\* datetime.strptime(s, "%d/%m/%Y") succeeds (run_bot.py:161-162).
ParsesAsDMY(s) == s.fmt = "dmy"
\* datetime.strptime(s, "%Y-%m-%d") succeeds (run_bot.py:168-169).
ParsesAsYMD(s) == s.fmt = "ymd"
\* strftime("%d/%m/%Y") (data_fetcher.py:173).
FormatDMY(s) == DateStr("dmy", s.y, s.m, s.d)
\* The order of datetime values.
DateOrd(s) == s.y * 10000 + s.m * 100 + s.d

Window(s, e) == [startDate |-> s, endDate |-> e]

\* A loop that would stop at the first window that does not parse.
RECURSIVE DatesOutputUntilBad(_)
DatesOutputUntilBad(available_dates) ==
    IF available_dates = <<>> THEN <<>>
    ELSE LET w == Head(available_dates)
         IN  IF ParsesAsIsoDate(w.startDate) /\ ParsesAsIsoDate(w.endDate)
             THEN <<Window(FormatDMY(w.startDate), FormatDMY(w.endDate))>>
                  \o DatesOutputUntilBad(Tail(available_dates))
             ELSE <<>>

\* The loop of data_fetcher.py:169-181: the windows whose two dates parse,
\* reformatted, in upstream order.
RECURSIVE DatesOutput(_)
DatesOutput(available_dates) ==
    IF available_dates = <<>> THEN <<>>
    ELSE LET w == Head(available_dates)
         IN  (IF ParsesAsIsoDate(w.startDate) /\ ParsesAsIsoDate(w.endDate)
              THEN <<Window(FormatDMY(w.startDate), FormatDMY(w.endDate))>>
              ELSE <<>>)
             \o DatesOutput(Tail(available_dates))

(***************************************************************************)
(* Notification history (run_bot.py:360-396, 488-514).                     *)
(***************************************************************************)
Range(f) == {f[x] : x \in DOMAIN f}

EmptyMap == [u \in {} |-> <<>>]

\* f"_{date['startDate']}_{date['endDate']}" for each date, in order.
RECURSIVE DateTokens(_)
DateTokens(dates) ==
    IF dates = <<>> THEN <<>>
    ELSE <<Head(dates).startDate, Head(dates).endDate>> \o DateTokens(Tail(dates))

\* A route id that would also hold the vehicle model.
RouteIdWithModel(origin, ret) ==
    <<origin, ret.destination>> \o DateTokens(ret.available_dates)
        \o <<ret.model_name>>

\* route_id: origin, destination and the dates joined by "_", kept as the
\* sequence of the joined parts (no part holds a "_": names are cleaned).
RouteId(origin, ret) ==
    <<origin, ret.destination>> \o DateTokens(ret.available_dates)

RouteIds(station) ==
    [n \in 1..Len(station.returns) |-> RouteId(station.origin, station.returns[n])]

\* A novelty check that forgets the history.
AlwaysNew(history, user_id, station) == TRUE

\* A novelty check that looks at the user's key only.
NewOnlyForUnknownUser(history, user_id, station) == user_id \notin DOMAIN history

\* _is_new_route (run_bot.py:360-375).
IsNewRoute(history, user_id, station) ==
    IF user_id \notin DOMAIN history THEN TRUE
    ELSE ~ \E n \in 1..Len(station.returns) :
               RouteIds(station)[n] \in Range(history[user_id])

\* A novelty check that creates the user's key, as a setdefault would.
HistoryWithKey(history, user_id, station) ==
    IF user_id \in DOMAIN history THEN history ELSE history @@ (user_id :> <<>>)

\* self.notification_history when _is_new_route returns (run_bot.py:360-375):
\* the function only reads it.
HistoryAfterIsNewRoute(history, user_id, station) == history

\* Appends that would not look whether the id is in the list already.
AppendAll(notified, ids) == notified \o ids

\* The appends of _mark_route_as_notified (run_bot.py:383-390).
RECURSIVE AppendMissing(_, _)
AppendMissing(notified, ids) ==
    IF ids = <<>> THEN notified
    ELSE AppendMissing(IF Head(ids) \in Range(notified) THEN notified
                       ELSE Append(notified, Head(ids)),
                       Tail(ids))

\* A mark that creates the user's key and appends nothing.
MarkNothing(history, user_id, station) ==
    IF user_id \in DOMAIN history THEN history ELSE history @@ (user_id :> <<>>)

\* A mark that would put back a list read before the send: what another
\* coroutine recorded for the subscriber in between is lost.
MarkReplacingList(history, user_id, station) ==
    (user_id :> RouteIds(station)) @@ history

\* The in-memory effect of _mark_route_as_notified (run_bot.py:379-390).
MarkRouteAsNotified(history, user_id, station) ==
    LET h0 == IF user_id \in DOMAIN history THEN history
              ELSE history @@ (user_id :> <<>>)
    IN  [h0 EXCEPT ![user_id] = AppendMissing(h0[user_id], RouteIds(station))]

\* current_route_ids of _check_deleted_routes (run_bot.py:492-499).
CurrentRouteIds(current_stations) ==
    UNION { Range(RouteIds(current_stations[n])) : n \in 1..Len(current_stations) }

\* A reconciliation that removes nothing.
KeepEverything(history, current_stations) == history

\* The in-memory effect of _check_deleted_routes (run_bot.py:502-505).
CheckDeletedRoutes(history, current_stations) ==
    [u \in DOMAIN history |->
        SelectSeq(history[u], LAMBDA id : id \in CurrentRouteIds(current_stations))]

\* A filter whose overlap test would exclude the boundaries.
RoutePassesStrictOverlap(filters, user_id, ret) ==
    LET ranges == IF user_id \in DOMAIN filters THEN filters[user_id] ELSE <<>>
    IN  IF ranges = <<>> THEN TRUE
        ELSE \E n \in 1..Len(ret.available_dates) :
               LET e == ret.available_dates[n]
               IN  /\ ParsesAsDMY(e.startDate) /\ ParsesAsDMY(e.endDate)
                   /\ \E q \in 1..Len(ranges) :
                        /\ ParsesAsYMD(ranges[q].start) /\ ParsesAsYMD(ranges[q].end)
                        /\ DateOrd(e.startDate) < DateOrd(ranges[q].end)
                        /\ DateOrd(e.endDate) > DateOrd(ranges[q].start)

\* A filter that would give up at a range that does not parse.
RoutePassesUnlessBadRange(filters, user_id, ret) ==
    LET ranges == IF user_id \in DOMAIN filters THEN filters[user_id] ELSE <<>>
    IN  IF ranges = <<>> THEN TRUE
        ELSE /\ \A q \in 1..Len(ranges) :
                  ParsesAsYMD(ranges[q].start) /\ ParsesAsYMD(ranges[q].end)
             /\ \E n \in 1..Len(ret.available_dates) :
                  LET e == ret.available_dates[n]
                  IN  /\ ParsesAsDMY(e.startDate) /\ ParsesAsDMY(e.endDate)
                      /\ \E q \in 1..Len(ranges) :
                           /\ DateOrd(e.startDate) <= DateOrd(ranges[q].end)
                           /\ DateOrd(e.endDate) >= DateOrd(ranges[q].start)

\* _route_passes_date_filter (run_bot.py:152-176).
RoutePassesDateFilter(filters, user_id, ret) ==
    LET ranges == IF user_id \in DOMAIN filters THEN filters[user_id] ELSE <<>>
    IN  IF ranges = <<>> THEN TRUE
        ELSE \E n \in 1..Len(ret.available_dates) :
               LET e == ret.available_dates[n]
               IN  /\ ParsesAsDMY(e.startDate) /\ ParsesAsDMY(e.endDate)
                   /\ \E q \in 1..Len(ranges) :
                        /\ ParsesAsYMD(ranges[q].start) /\ ParsesAsYMD(ranges[q].end)
                        /\ DateOrd(e.startDate) <= DateOrd(ranges[q].end)
                        /\ DateOrd(e.endDate) >= DateOrd(ranges[q].start)

(***************************************************************************)
(* The upstream catalog.                                                   *)
(***************************************************************************)
Users == {"u1", "u2"}
StationIds == {1, 2}
Tasks == {"job", "manual"}

RawName(id) == IF id = 1 THEN <<"A">> ELSE <<"B">>
RawAddress(id) == IF id = 1 THEN <<"a", "1">> ELSE <<"b", "2">>

\* An entry of the station list.
StationEntry(id) == [id |-> id, name |-> RawName(id), address |-> RawAddress(id)]

\* The valid entries of the station list (data_fetcher.py:444-449).
StationList == <<StationEntry(1), StationEntry(2)>>

\* A station list whose first station has a name with a diacritic, "Köln".
AccentedName == <<"K", "o-uml", "l", "n">>
AccentedList ==
    <<[id |-> 1, name |-> AccentedName, address |-> RawAddress(1)], StationEntry(2)>>

\* What get_station_data(id) returns: the station's detail, or None.
Detail(id, returns) ==
    [none |-> FALSE, id |-> id, name |-> RawName(id), address |-> RawAddress(id),
     returns |-> returns]
NoneDetail == [none |-> TRUE, id |-> 0, name |-> <<>>, address |-> <<>>, returns |-> <<>>]

Iso(y, m, d) == DateStr("iso", y, m, d)
WinJuly == Window(Iso(2024, 7, 1), Iso(2024, 7, 5))
WinJune == Window(Iso(2024, 6, 1), Iso(2024, 6, 10))
WinBad == Window(BadDate, Iso(2024, 7, 5))
WinBadEnd == Window(Iso(2024, 7, 1), BadDate)

\* The timeframes of the edges between the stations: none.
NoFrames ==
    (<<1, 1>> :> <<>>) @@ (<<1, 2>> :> <<>>) @@ (<<2, 1>> :> <<>>) @@ (<<2, 2>> :> <<>>)

\* A state of the upstream: whether the station list can be fetched, the
\* stations whose detail can be fetched, each station's returns, each edge's
\* timeframes (<<>>: none, or the fetch fails) and the edges with an offer.
World(list_ok, detail_ok, ret1, ret2, frames, offers) ==
    [list_ok |-> list_ok, detail_ok |-> detail_ok,
     returns |-> (1 :> ret1) @@ (2 :> ret2),
     frames |-> frames, offers |-> offers,
     \* the valid entries of the list endpoint's answer
     stations |-> StationList]

\* Stations A(1) and B(2), A.returns = [2], one window, an offer.
E2EWorld ==
    World(TRUE, {1, 2}, <<2>>, <<>>, [NoFrames EXCEPT ![<<1, 2>>] = <<WinJuly>>], {<<1, 2>>})

\* The catalogs the history is followed through: A -> B, its window moved,
\* routes in both directions, no station with returns.
HistoryWorlds ==
    { E2EWorld,
      World(TRUE, {1, 2}, <<2>>, <<>>, [NoFrames EXCEPT ![<<1, 2>>] = <<WinJune>>], {<<1, 2>>}),
      World(TRUE, {1, 2}, <<2>>, <<1>>,
            [NoFrames EXCEPT ![<<1, 2>>] = <<WinJuly>>, ![<<2, 1>>] = <<WinJuly>>],
            {<<1, 2>>, <<2, 1>>}),
      World(TRUE, {1, 2}, <<>>, <<>>, NoFrames, {}) }

Worlds ==
    { E2EWorld,
      \* the window of A -> B moved
      World(TRUE, {1, 2}, <<2>>, <<>>, [NoFrames EXCEPT ![<<1, 2>>] = <<WinJune>>], {<<1, 2>>}),
      \* routes in both directions
      World(TRUE, {1, 2}, <<2>>, <<1>>,
            [NoFrames EXCEPT ![<<1, 2>>] = <<WinJuly>>, ![<<2, 1>>] = <<WinJuly>>],
            {<<1, 2>>, <<2, 1>>}),
      \* no station has returns
      World(TRUE, {1, 2}, <<>>, <<>>, NoFrames, {}),
      \* the station list cannot be fetched
      World(FALSE, {1, 2}, <<2>>, <<>>, [NoFrames EXCEPT ![<<1, 2>>] = <<WinJuly>>], {<<1, 2>>}),
      \* the detail of station 1 cannot be fetched
      World(TRUE, {2}, <<>>, <<1>>, [NoFrames EXCEPT ![<<2, 1>>] = <<WinJuly>>], {<<2, 1>>}),
      \* A -> B has no timeframes
      World(TRUE, {1, 2}, <<2>>, <<>>, NoFrames, {}),
      \* A -> B has no offer
      World(TRUE, {1, 2}, <<2>>, <<>>, [NoFrames EXCEPT ![<<1, 2>>] = <<WinJuly>>], {}),
      \* one window of A -> B does not parse
      World(TRUE, {1, 2}, <<2>>, <<>>, [NoFrames EXCEPT ![<<1, 2>>] = <<WinBad, WinJune>>],
            {<<1, 2>>}),
      \* no window of A -> B parses, B -> A has a window
      World(TRUE, {1, 2}, <<2>>, <<1>>,
            [NoFrames EXCEPT ![<<1, 2>>] = <<WinBadEnd, WinBad>>, ![<<2, 1>>] = <<WinJuly>>],
            {<<1, 2>>, <<2, 1>>}),
      \* A.returns = [2, 1] and B.returns = [1]: A -> B has no timeframes, the
      \* pair after it (A itself, which the walk treats as any other id) and
      \* the pair of the other origin have a window and an offer
      World(TRUE, {1, 2}, <<2, 1>>, <<1>>,
            [NoFrames EXCEPT ![<<1, 1>>] = <<WinJuly>>, ![<<2, 1>>] = <<WinJuly>>],
            {<<1, 1>>, <<2, 1>>}),
      \* the same, A -> B has a window and no offer
      World(TRUE, {1, 2}, <<2, 1>>, <<1>>,
            [NoFrames EXCEPT ![<<1, 2>>] = <<WinJune>>, ![<<1, 1>>] = <<WinJuly>>,
                             ![<<2, 1>>] = <<WinJuly>>],
            {<<1, 1>>, <<2, 1>>}) }

\* get_station_data(id) (data_fetcher.py:422-437).
GetStationData(w, id) ==
    IF id \in w.detail_ok THEN Detail(id, w.returns[id]) ELSE NoneDetail

\* get_station_transfer_dates (data_fetcher.py:258-277): [] when nothing came.
GetStationTransferDates(w, o, d) == w.frames[<<o, d>>]

\* get_booking_data (data_fetcher.py:279-304) returned offers.
HasBookingData(w, o, d) == <<o, d>> \in w.offers

(***************************************************************************)
(* Routes.                                                                 *)
(***************************************************************************)
NoStation == [origin |-> <<>>, origin_address |-> <<>>, returns |-> <<>>]

\* route_data (data_fetcher.py:199-206) of an edge with an offer.
RouteData(entry, dates_output) ==
    [destination |-> cleanup_special_characters(entry.name),
     destination_address |-> cleanup_special_characters(entry.address),
     available_dates |-> dates_output,
     model_name |-> "Camper", model_image |-> "camper.jpg"]

\* single_route (data_fetcher.py:211-215).
SingleRoute(out, route_data) ==
    [origin |-> out.origin, origin_address |-> out.origin_address,
     returns |-> <<route_data>>]

(***************************************************************************)
(* Subscriptions.                                                          *)
(***************************************************************************)
Fav(u, names) == [user |-> u, stations |-> names]
FavUsers(favs) == {favs[n].user : n \in 1..Len(favs)}
FavIndex(favs, u) == CHOOSE n \in 1..Len(favs) : favs[n].user = u

DateRange(s, e) == [start |-> s, end |-> e]
Ymd(y, m, d) == DateStr("ymd", y, m, d)
RangeJune == DateRange(Ymd(2024, 6, 10), Ymd(2024, 6, 20))
RangeBad == DateRange(BadDate, Ymd(2024, 6, 20))

\* A file: "absent", "ok" with its content, or "corrupt" (a write that
\* stopped half way).
File(st, content) == [state |-> st, content |-> content]
\* A store that would be written at some later time, if at all.
WriteOrKeep(old, content, faulty) == {File("ok", content), old}

\* open(path, 'w') and json.dump: the write succeeds, or (faulty) open()
\* fails and the file is as before, or the dump stops after the file was
\* truncated.
WriteOutcomes(old, content, faulty) ==
    IF faulty THEN {File("ok", content), old, File("corrupt", <<>>)}
    ELSE {File("ok", content)}

\* _load_stations (run_bot.py:107-116).
LoadStations(f) == IF f.state = "ok" THEN f.content ELSE <<>>

\* returns of a route that pass the user's date filter (run_bot.py:417).
FilteredReturns(filters, u, route) ==
    SelectSeq(route.returns, LAMBDA ret : RoutePassesDateFilter(filters, u, ret))

IdleTask ==
    [pc |-> "idle", c |-> 0, vs |-> <<>>, i |-> 0, wl |-> 0, j |-> 0, out |-> NoStation,
     route |-> NoStation, k |-> 0, n0 |-> 0, r |-> 0, cand |-> NoStation,
     sent |-> "none", retnone |-> FALSE,
     \* the single_route of each call of route_callback in this walk, in order
     walked |-> <<>>]

\* The job queue after __init__ (run_bot.py:85-95): DEBUG_MODE is False (26)
\* and one run of _job_update_database is scheduled.
InitialQueue == [pending |-> 1, last_run |-> "none"]

\* The finally clause of _job_update_database (run_bot.py:1138-1146), with
\* DEBUG_MODE False and a job queue: the next run is scheduled.  The manual
\* update has no such clause.
JobEnded(t, how) ==
    IF t = "job" THEN [pending |-> job_queue.pending + 1, last_run |-> how]
    ELSE job_queue

Event(u, station, is_origin) == [user |-> u, station |-> station, is_origin |-> is_origin]

\* No function is being called on its own.
NoCall ==
    [fn |-> "none", filters |-> EmptyMap, user |-> "u1", station |-> NoStation,
     other |-> NoStation]

PureAtRest == fn_call = NoCall /\ fn_result = <<>>

\* The bot after construction with no file on disk and nothing fetched.
BotAtRest ==
    /\ notification_history = EmptyMap
    /\ history_file = File("absent", <<>>)
    /\ user_favorites = <<>>
    /\ user_date_filters = EmptyMap
    /\ bot_stations = <<>>
    /\ last_update_time = 0
    /\ db_file = File("absent", <<>>)
    /\ valid_stations = <<>>
    /\ stations_data = EmptyMap
    /\ swr_lists = <<>>
    /\ swr_cur = 0
    /\ output_data = <<>>
    /\ upstream = E2EWorld
    /\ store_faulty = FALSE
    /\ task = [t \in Tasks |-> IdleTask]
    /\ running = "none"
    /\ cycle_log = <<>>
    /\ outcome = <<>>
    /\ cycles = 0
    /\ user_ops = 0
    /\ job_queue = InitialQueue

\* The fetcher at rest, for the specifications of the bot.
FetchAtRest ==
    /\ fetch_script = <<>>
    /\ fetch_pos = 1
    /\ fetch_pc = "idle"
    /\ attempt = 0
    /\ fetch_trace = <<>>
    /\ fetch_result = "unset"
    /\ fetch_calls = 0
    /\ fetcher_log = <<>>

FetchInit ==
    /\ fetch_script \in [1..MaxResp -> Responses]
    /\ fetch_pos = 1
    /\ fetch_pc = "idle"
    /\ attempt = 0
    /\ fetch_trace = <<>>
    /\ fetch_result = "unset"
    /\ fetch_calls = 0
    /\ fetcher_log = <<>>
    /\ BotAtRest
    /\ PureAtRest

\* A call of get_json_from_url begins (the script must hold the answers of a
\* whole call).
GetJsonCall ==
    /\ fetch_pc \in {"idle", "done"}
    /\ Len(fetch_script) - fetch_pos + 1 >= max_retries
    /\ fetch_pc' = "try"
    /\ attempt' = 0
    /\ fetch_trace' = <<>>
    /\ fetch_result' = "unset"
    /\ fetch_calls' = fetch_calls + 1
    /\ UNCHANGED <<fetch_script, fetch_pos, fetcher_log>>
    /\ UNCHANGED <<botVars, fetcherVars, loopVars, pureVars>>

\* One iteration of the retry loop (data_fetcher.py:311-359).
GetJsonAttempt ==
    /\ fetch_pc = "try"
    /\ attempt < max_retries
    /\ fetch_pos <= Len(fetch_script)
    /\ LET r == fetch_script[fetch_pos]
           steps == <<Sleep(PreAttemptWait(attempt)), Request(r)>>
       IN  /\ fetch_pos' = fetch_pos + 1
           /\ IF ReturnsAtOnce(r) \/ ~MayRetry(attempt)
              THEN /\ fetch_result' = ResultOf(r)
                   /\ fetch_pc' = "done"
                   /\ fetch_trace' = fetch_trace \o steps
                   /\ fetcher_log' = fetcher_log \o steps
                   /\ UNCHANGED attempt
              ELSE /\ fetch_trace' =
                          fetch_trace \o steps \o <<Sleep(HandlerWait(attempt))>>
                   /\ fetcher_log' =
                          fetcher_log \o steps \o <<Sleep(HandlerWait(attempt))>>
                   /\ attempt' = NextAttempt(attempt)
                   /\ UNCHANGED <<fetch_result, fetch_pc>>
    /\ UNCHANGED <<fetch_script, fetch_calls>>
    /\ UNCHANGED <<botVars, fetcherVars, loopVars, pureVars>>

\* The request of download_image (requests.get, data_fetcher.py:247).
ImageRequest == [op |-> "request", resp |-> "image"]

\* download_image (data_fetcher.py:236-256) for an image that is not in
\* assets/ yet: one requests.get with no wait before it.  The walk calls it
\* with the payload of the offer fetch that has just returned (194).
DownloadImage ==
    /\ fetch_pc = "done"
    /\ fetch_result = "payload"
    /\ fetcher_log[Len(fetcher_log)] # ImageRequest
    /\ fetcher_log' = Append(fetcher_log, ImageRequest)
    /\ UNCHANGED <<fetch_script, fetch_pos, fetch_pc, attempt, fetch_trace,
                   fetch_result, fetch_calls>>
    /\ UNCHANGED <<botVars, fetcherVars, loopVars, pureVars>>

FetchNext == GetJsonCall \/ GetJsonAttempt \/ DownloadImage

SpecFetch == FetchInit /\ [][FetchNext]_vars

\* The call is synchronous: once begun, the loop runs on (every request is
\* answered or fails, every sleep ends).
SpecFetchLive == SpecFetch /\ WF_vars(GetJsonAttempt)

(***************************************************************************)
(* The discovery cycle: RoadsurferBot._job_update_database ("job") and     *)
(* RoadsurferBot.update_database ("manual"), as coroutines of one event    *)
(* loop.  A coroutine keeps the loop until it awaits something that        *)
(* suspends it: a Telegram call.  The upstream fetches are synchronous.    *)
(***************************************************************************)
CanRun(t) == running \in {"none", t}

\* self.data_fetcher.stations_with_returns.
CurSwr == IF swr_cur = 0 THEN <<>> ELSE swr_lists[swr_cur]

\* An exception reaches the handler's `except`: the cycle is over, failed.
\* A handler in which only the end of the try block would schedule the next
\* run of the job.
FailCycleWithoutReschedule(t) ==
    /\ task' = [task EXCEPT ![t] = IdleTask]
    /\ outcome' = [outcome EXCEPT ![task[t].c] = "failed"]
    /\ running' = "none"
    /\ job_queue' = IF t = "job" THEN [job_queue EXCEPT !.last_run = "failed"]
                    ELSE job_queue

\* An exception leaves the try block of the handler: it is logged (run_bot.py:
\* 352-358, 1136-1137) and, in the job, the finally clause schedules the next
\* run (1138-1146).
FailCycle(t) ==
    /\ task' = [task EXCEPT ![t] = IdleTask]
    /\ outcome' = [outcome EXCEPT ![task[t].c] = "failed"]
    /\ running' = "none"
    /\ job_queue' = JobEnded(t, "failed")

\* The handler is entered (run_bot.py:259-279, 1084-1089); w is the state of
\* the upstream from now on.
StartCycleIn(t, w) ==
    /\ task[t].pc = "idle"
    /\ running = "none"
    /\ cycles < MaxCycles
    /\ cycles + user_ops < MaxOps
    /\ cycles' = cycles + 1
    \* the job runs when the queue fires it
    /\ t = "job" => job_queue.pending > 0
    /\ job_queue' = IF t = "job" THEN [job_queue EXCEPT !.pending = @ - 1] ELSE job_queue
    /\ upstream' = w
    /\ task' = [task EXCEPT ![t] = [IdleTask EXCEPT !.pc = "fetch", !.c = cycles + 1]]
    \* update_database awaits its status message; the job awaits
    \* initializer_message when nothing was updated yet
    /\ running' = IF t = "job" /\ last_update_time # 0 THEN t ELSE "none"
    /\ cycle_log' = Append(cycle_log, <<>>)
    /\ outcome' = Append(outcome, "running")
    /\ UNCHANGED <<pureVars, fetchVars, store_faulty, botVars, fetcherVars, user_ops>>

StartCycle(t) == \E w \in HistoryWorlds : StartCycleIn(t, w)

\* get_stations_data() and the head of get_stations_with_returns
\* (run_bot.py:303-305, 1092-1104; data_fetcher.py:388-396, 433-452).
GetStations(t) ==
    /\ task[t].pc = "fetch"
    /\ CanRun(t)
    /\ LET vs == IF upstream.list_ok THEN upstream.stations ELSE valid_stations
       IN  /\ valid_stations' = vs
           /\ IF vs = <<>>
              THEN /\ task' = [task EXCEPT ![t].pc = "check"]
                   /\ UNCHANGED <<swr_lists, swr_cur>>
              ELSE /\ swr_lists' = Append(swr_lists, <<>>)
                   /\ swr_cur' = Len(swr_lists) + 1
                   /\ task' = [task EXCEPT ![t].pc = "detail", ![t].vs = vs, ![t].i = 1]
    /\ running' = t
    /\ UNCHANGED <<job_queue, pureVars, fetchVars, store_faulty, botVars, stations_data, output_data, upstream,
                   cycle_log, outcome, cycles, user_ops>>

\* One iteration of the loop of get_stations_with_returns
\* (data_fetcher.py:400-417); the progress callback of update_database awaits
\* an edit of the status message.
GetDetail(t) ==
    /\ task[t].pc = "detail"
    /\ CanRun(t)
    /\ LET T == task[t]
           station == T.vs[T.i]
       IN  /\ stations_data' = (station.id :> station) @@ stations_data
           /\ swr_lists' = [swr_lists EXCEPT
                              ![swr_cur] = Append(@, GetStationData(upstream, station.id))]
           /\ task' = [task EXCEPT ![t].i = T.i + 1,
                                   ![t].pc = IF T.i = Len(T.vs) THEN "check" ELSE "detail"]
    /\ running' = IF t = "manual" THEN "none" ELSE t
    /\ UNCHANGED <<job_queue, pureVars, fetchVars, store_faulty, botVars, valid_stations, swr_cur, output_data, upstream,
                   cycle_log, outcome, cycles, user_ops>>

\* `if not self.data_fetcher.stations_with_returns: raise`
\* (run_bot.py:306-319, 1105-1106).
CheckStations(t) ==
    /\ task[t].pc = "check"
    /\ CanRun(t)
    /\ IF CurSwr = <<>>
       THEN FailCycle(t)
       ELSE /\ task' = [task EXCEPT ![t].pc = "walk_start"]
            /\ running' = IF t = "manual" THEN "none" ELSE t
            /\ UNCHANGED <<outcome, job_queue>>
    /\ UNCHANGED <<pureVars, fetchVars, store_faulty, botVars, fetcherVars, upstream, cycle_log, cycles,
                   user_ops>>

\* The head of print_routes_for_stations (data_fetcher.py:84-93).
WalkStart(t) ==
    /\ task[t].pc = "walk_start"
    /\ CanRun(t)
    /\ output_data' = <<>>
    /\ IF CurSwr = <<>>
       THEN task' = [task EXCEPT ![t].pc = "finish", ![t].retnone = TRUE]
       ELSE task' = [task EXCEPT ![t].pc = "station", ![t].wl = swr_cur, ![t].i = 1]
    /\ running' = t
    /\ UNCHANGED <<job_queue, pureVars, fetchVars, store_faulty, botVars, valid_stations, stations_data, swr_lists, swr_cur,
                   upstream, cycle_log, outcome, cycles, user_ops>>

\* validate_station_data (data_fetcher.py:376-386) raises NameError on a
\* station that is not a dict: `logger` is not a name of the module.
ValidateRaises(station) == station.none

\* The station is left without an entry (data_fetcher.py:115-134).
StationSkipped(station) ==
    \/ station.id \notin DOMAIN stations_data
    \/ cleanup_special_characters(stations_data[station.id].name) = <<>>
    \/ cleanup_special_characters(stations_data[station.id].address) = <<>>
    \/ station.returns = <<>>

\* station_output (data_fetcher.py:126-130).
StationOutput(station) ==
    [origin |-> cleanup_special_characters(stations_data[station.id].name),
     origin_address |-> cleanup_special_characters(stations_data[station.id].address),
     returns |-> <<>>]

\* The next station of the loop of print_routes_for_stations and the head of
\* process_station_destinations (data_fetcher.py:93-134).
WalkStation(t) ==
    /\ task[t].pc = "station"
    /\ CanRun(t)
    /\ LET T == task[t]
           lst == swr_lists[T.wl]
       IN  IF T.i > Len(lst)
           THEN /\ task' = [task EXCEPT ![t].pc = "finish"]
                /\ running' = t
                /\ UNCHANGED <<outcome, job_queue>>
           ELSE IF ValidateRaises(lst[T.i])
           THEN FailCycle(t)
           ELSE /\ IF StationSkipped(lst[T.i])
                   THEN task' = [task EXCEPT ![t].i = T.i + 1]
                   ELSE task' = [task EXCEPT ![t].pc = "edge", ![t].j = 1,
                                             ![t].out = StationOutput(lst[T.i])]
                /\ running' = t
                /\ UNCHANGED <<outcome, job_queue>>
    /\ UNCHANGED <<pureVars, fetchVars, store_faulty, botVars, fetcherVars, upstream, cycle_log, cycles,
                   user_ops>>

\* A walk in which a pair without timeframes or without offers would take
\* the other pairs of its origin with it.
EdgeFinalizedIfSiblingsAre(o, d) ==
    /\ d \in DOMAIN stations_data
    /\ stations_data[d].name # <<>>
    /\ stations_data[d].address # <<>>
    /\ DatesOutput(GetStationTransferDates(upstream, o, d)) # <<>>
    /\ \A n \in 1..Len(upstream.returns[o]) :
          /\ GetStationTransferDates(upstream, o, upstream.returns[o][n]) # <<>>
          /\ HasBookingData(upstream, o, upstream.returns[o][n])

\* The destination is processed up to its route (data_fetcher.py:139-198).
EdgeFinalized(o, d) ==
    /\ d \in DOMAIN stations_data
    /\ stations_data[d].name # <<>>
    /\ stations_data[d].address # <<>>
    /\ GetStationTransferDates(upstream, o, d) # <<>>
    /\ HasBookingData(upstream, o, d)
    /\ DatesOutput(GetStationTransferDates(upstream, o, d)) # <<>>

\* One iteration of the loop over the returns of a station, up to the call of
\* the route callback (data_fetcher.py:138-220), or the end of the loop
\* (data_fetcher.py:229).
WalkEdge(t) ==
    /\ task[t].pc = "edge"
    /\ CanRun(t)
    /\ LET T == task[t]
           station == swr_lists[T.wl][T.i]
       IN  IF T.j > Len(station.returns)
           THEN /\ output_data' = Append(output_data, T.out)
                /\ task' = [task EXCEPT ![t].pc = "station", ![t].i = T.i + 1,
                                        ![t].j = 0, ![t].out = NoStation]
           ELSE LET d == station.returns[T.j]
                    route_data ==
                        RouteData(stations_data[d],
                                  DatesOutput(GetStationTransferDates(upstream, station.id, d)))
                    out2 == [T.out EXCEPT !.returns = Append(@, route_data)]
                IN  /\ UNCHANGED output_data
                    /\ IF EdgeFinalized(station.id, d)
                       THEN task' = [task EXCEPT ![t].pc = "cb_user", ![t].out = out2,
                                                 ![t].route = SingleRoute(out2, route_data),
                                                 ![t].walked =
                                                     Append(@, SingleRoute(out2, route_data)),
                                                 ![t].k = 1, ![t].n0 = Len(user_favorites)]
                       ELSE task' = [task EXCEPT ![t].j = T.j + 1]
    /\ running' = t
    /\ UNCHANGED <<job_queue, pureVars, fetchVars, store_faulty, botVars, valid_stations, stations_data, swr_lists, swr_cur,
                   upstream, cycle_log, outcome, cycles, user_ops>>

\* favorite_stations of the loop of _check_and_notify_route: the set of the
\* user's key, which the handlers update in place (run_bot.py:413, 1036).
FavoriteStations(t) == user_favorites[task[t].k].stations

\* A callback that would be scheduled and not awaited: the walk goes on to
\* the next edge while the notification is pending.
EmitWithoutAwait(t, u, station, is_origin, await_pc) ==
    /\ cycle_log' = [cycle_log EXCEPT ![task[t].c] = Append(@, Event(u, station, is_origin))]
    /\ task' = [task EXCEPT ![t].pc = "edge", ![t].j = task[t].j + 1]
    /\ running' = "none"

\* The notification is handed to _notify_user, which awaits the send.
Emit(t, u, station, is_origin, await_pc) ==
    /\ cycle_log' = [cycle_log EXCEPT ![task[t].c] = Append(@, Event(u, station, is_origin))]
    /\ task' = [task EXCEPT ![t].pc = await_pc, ![t].cand = station, ![t].sent = "none"]
    /\ running' = "none"

\* _check_and_notify_route, the next user and the origin match
\* (run_bot.py:413-426).  The loop is over self.user_favorites.items(): a key
\* added while the coroutine was suspended makes the next step of the
\* iteration raise RuntimeError, which the handler at 449 logs.
CheckOrigin(t) ==
    /\ task[t].pc = "cb_user"
    /\ CanRun(t)
    /\ LET T == task[t]
       IN  IF Len(user_favorites) # T.n0 \/ T.k > T.n0
           THEN /\ task' = [task EXCEPT ![t].pc = "edge", ![t].j = T.j + 1,
                                        ![t].route = NoStation, ![t].k = 0, ![t].n0 = 0]
                /\ running' = t
                /\ UNCHANGED <<cycle_log, notification_history>>
           ELSE LET u == user_favorites[T.k].user
                    filtered == FilteredReturns(user_date_filters, u, T.route)
                    filtered_route == [T.route EXCEPT !.returns = filtered]
                    asked == T.route.origin \in FavoriteStations(t) /\ filtered # <<>>
                IN  /\ notification_history' =
                         IF asked
                         THEN HistoryAfterIsNewRoute(notification_history, u, filtered_route)
                         ELSE notification_history
                    /\ IF asked /\ IsNewRoute(notification_history, u, filtered_route)
                       THEN Emit(t, u, filtered_route, TRUE, "await_o")
                       ELSE /\ task' = [task EXCEPT ![t].pc = "cb_dest", ![t].r = 1]
                            /\ running' = t
                            /\ UNCHANGED cycle_log
    /\ UNCHANGED <<job_queue, pureVars, fetchVars, store_faulty, history_file, user_favorites, user_date_filters,
                   bot_stations, last_update_time, db_file, fetcherVars, upstream, outcome,
                   cycles, user_ops>>

\* A mark that would undo its change in memory when the store cannot be
\* written.
MarkRollsBackOnFailedWrite(t) ==
    /\ running = "none"
    /\ LET marked == MarkRouteAsNotified(notification_history,
                                         user_favorites[task[t].k].user, task[t].cand)
       IN  \E f \in WriteOutcomes(history_file, marked, store_faulty) :
              /\ history_file' = f
              /\ notification_history' =
                    IF f = File("ok", marked) THEN marked ELSE notification_history
    /\ running' = t
    /\ UNCHANGED cycle_log

\* _notify_user returns (it swallows a failed send, run_bot.py:519-526) and
\* _mark_route_as_notified runs (run_bot.py:377-396).
MarkAfterSend(t) ==
    /\ running = "none"
    /\ notification_history' =
         MarkRouteAsNotified(notification_history, user_favorites[task[t].k].user,
                             task[t].cand)
    /\ history_file' \in WriteOutcomes(history_file, notification_history', store_faulty)
    /\ running' = t
    /\ UNCHANGED cycle_log

AfterOriginSend(t) ==
    /\ task[t].pc = "await_o"
    /\ \E sent \in {"yes", "no"} :
         /\ MarkAfterSend(t)
         /\ task' = [task EXCEPT ![t].pc = "cb_dest", ![t].r = 1, ![t].sent = sent]
    /\ UNCHANGED <<job_queue, pureVars, fetchVars, store_faulty, user_favorites, user_date_filters, bot_stations,
                   last_update_time, db_file, fetcherVars, upstream, outcome, cycles,
                   user_ops>>

\* A destination match that would not look at the subscriber's date filter.
DestinationMatchesAnyDate(stations, filters, u, ret) ==
    /\ ret.destination # <<>>
    /\ ret.destination \in stations

\* The conditions under which the destination match goes on to the novelty
\* check (run_bot.py:430-434).
DestinationMatches(stations, filters, u, ret) ==
    /\ ret.destination # <<>>
    /\ ret.destination \in stations
    /\ RoutePassesDateFilter(filters, u, ret)

\* _check_and_notify_route, the destination match (run_bot.py:429-447).
CheckDest(t) ==
    /\ task[t].pc = "cb_dest"
    /\ CanRun(t)
    /\ LET T == task[t]
           u == user_favorites[T.k].user
       IN  IF T.r > Len(T.route.returns)
           THEN /\ task' = [task EXCEPT ![t].pc = "cb_user", ![t].k = T.k + 1, ![t].r = 0,
                                        ![t].cand = NoStation, ![t].sent = "none"]
                /\ running' = t
                /\ UNCHANGED <<cycle_log, notification_history>>
           ELSE LET ret == T.route.returns[T.r]
                    dest_route == [origin |-> T.route.origin,
                                   origin_address |-> T.route.origin_address,
                                   returns |-> <<ret>>]
                    asked == DestinationMatches(FavoriteStations(t), user_date_filters, u, ret)
                IN  /\ notification_history' =
                         IF asked
                         THEN HistoryAfterIsNewRoute(notification_history, u, dest_route)
                         ELSE notification_history
                    /\ IF asked /\ IsNewRoute(notification_history, u, dest_route)
                       THEN Emit(t, u, dest_route, FALSE, "await_d")
                       ELSE /\ task' = [task EXCEPT ![t].r = T.r + 1, ![t].cand = NoStation,
                                                    ![t].sent = "none"]
                            /\ running' = t
                            /\ UNCHANGED cycle_log
    /\ UNCHANGED <<job_queue, pureVars, fetchVars, store_faulty, history_file, user_favorites, user_date_filters,
                   bot_stations, last_update_time, db_file, fetcherVars, upstream, outcome,
                   cycles, user_ops>>

AfterDestSend(t) ==
    /\ task[t].pc = "await_d"
    /\ \E sent \in {"yes", "no"} :
         /\ MarkAfterSend(t)
         /\ task' = [task EXCEPT ![t].r = task[t].r + 1, ![t].pc = "cb_dest",
                                 ![t].sent = sent]
    /\ UNCHANGED <<job_queue, pureVars, fetchVars, store_faulty, user_favorites, user_date_filters, bot_stations,
                   last_update_time, db_file, fetcherVars, upstream, outcome, cycles,
                   user_ops>>

\* _check_deleted_routes (run_bot.py:488-514): the history is pruned and saved.
Reconcile(current_stations) ==
    /\ notification_history' = CheckDeletedRoutes(notification_history, current_stations)
    /\ history_file' \in WriteOutcomes(history_file, notification_history', store_faulty)

\* The walk has returned: the snapshot is saved (save_output_to_json writes
\* nothing when output_data is empty, and raises when the write fails), read
\* back, and the history is reconciled with it (run_bot.py:332-350,
\* 1114-1133; data_fetcher.py:469-481).  A walk that returned None makes
\* len() raise: in the job before the reconciliation, in update_database
\* after it.
Finish(t) ==
    /\ task[t].pc = "finish"
    /\ CanRun(t)
    /\ bot_stations' = IF task[t].retnone THEN <<>> ELSE output_data
    /\ \E res \in {"written", "open_failed", "truncated"} :
         LET skip == output_data = <<>>
             db2 == IF skip \/ res = "open_failed" THEN db_file
                    ELSE IF res = "written" THEN File("ok", output_data)
                    ELSE File("corrupt", <<>>)
             current_stations == LoadStations(db2)
         IN  /\ db_file' = db2
             /\ IF ~skip /\ res # "written"
                THEN /\ FailCycle(t)
                     /\ UNCHANGED <<notification_history, history_file, last_update_time>>
                ELSE /\ last_update_time' = 1
                     /\ IF current_stations # <<>> /\ ~(t = "job" /\ task[t].retnone)
                        THEN Reconcile(current_stations)
                        ELSE UNCHANGED <<notification_history, history_file>>
                     /\ task' = [task EXCEPT ![t] = IdleTask]
                     /\ outcome' = [outcome EXCEPT
                                      ![task[t].c] = IF task[t].retnone THEN "failed" ELSE "completed"]
                     /\ job_queue' = JobEnded(t, IF task[t].retnone THEN "failed"
                                                 ELSE "completed")
                     /\ running' = "none"
    /\ UNCHANGED <<pureVars, fetchVars, store_faulty, user_favorites, user_date_filters, fetcherVars, upstream,
                   cycle_log, cycles, user_ops>>

(***************************************************************************)
(* The chat handlers that change the subscriptions.  They run when the     *)
(* event loop is free.                                                     *)
(***************************************************************************)
HandlerRuns ==
    /\ running = "none"
    /\ user_ops < MaxUserOps
    /\ cycles + user_ops < MaxOps
    /\ user_ops' = user_ops + 1

\* The names add_favorite offers (run_bot.py:576-586).
AllNames == {RawName(id) : id \in StationIds}

\* add_favorite and _handle_save_favorites, type 'add'
\* (run_bot.py:570-571, 1032-1036).
AddFavorites(u, selected) ==
    /\ HandlerRuns
    /\ user_favorites' =
         IF u \in FavUsers(user_favorites)
         THEN [user_favorites EXCEPT ![FavIndex(user_favorites, u)].stations = @ \cup selected]
         ELSE Append(user_favorites, Fav(u, selected))
    /\ UNCHANGED <<job_queue, pureVars, fetchVars, store_faulty, notification_history, history_file, user_date_filters,
                   bot_stations, last_update_time, db_file, fetcherVars, upstream, task,
                   running, cycle_log, outcome, cycles>>

\* remove_favorite and _handle_save_favorites, type 'remove'
\* (run_bot.py:642-646, 1037-1040).
RemoveFavorites(u, selected) ==
    /\ HandlerRuns
    /\ u \in FavUsers(user_favorites)
    /\ selected # {}
    /\ selected \subseteq user_favorites[FavIndex(user_favorites, u)].stations
    /\ user_favorites' =
         [user_favorites EXCEPT ![FavIndex(user_favorites, u)].stations = @ \ selected]
    /\ UNCHANGED <<job_queue, pureVars, fetchVars, store_faulty, notification_history, history_file, user_date_filters,
                   bot_stations, last_update_time, db_file, fetcherVars, upstream, task,
                   running, cycle_log, outcome, cycles>>

RemoveAt(seq, n) == [m \in 1..(Len(seq) - 1) |-> IF m < n THEN seq[m] ELSE seq[m + 1]]
DropKey(f, u) == [x \in DOMAIN f \ {u} |-> f[x]]

\* handle_calendar_selection, the end date is chosen (run_bot.py:795-806).
AddDateRange(u, range) ==
    /\ HandlerRuns
    /\ user_date_filters' =
         IF u \in DOMAIN user_date_filters
         THEN [user_date_filters EXCEPT ![u] = Append(@, range)]
         ELSE (u :> <<range>>) @@ user_date_filters
    /\ UNCHANGED <<job_queue, pureVars, fetchVars, store_faulty, notification_history, history_file, user_favorites,
                   bot_stations, last_update_time, db_file, fetcherVars, upstream, task,
                   running, cycle_log, outcome, cycles>>

\* handle_date_filter, "date_delete_N" (run_bot.py:739-753).
DeleteDateRange(u, n) ==
    /\ HandlerRuns
    /\ u \in DOMAIN user_date_filters
    /\ n \in 1..Len(user_date_filters[u])
    /\ user_date_filters' =
         IF Len(user_date_filters[u]) > 1
         THEN [user_date_filters EXCEPT ![u] = RemoveAt(@, n)]
         ELSE DropKey(user_date_filters, u)
    /\ UNCHANGED <<job_queue, pureVars, fetchVars, store_faulty, notification_history, history_file, user_favorites,
                   bot_stations, last_update_time, db_file, fetcherVars, upstream, task,
                   running, cycle_log, outcome, cycles>>

\* A "clear" that would also forget what the subscriber was notified of.
ClearFiltersAndHistory(u) ==
    /\ HandlerRuns
    /\ u \in DOMAIN user_date_filters
    /\ user_date_filters' = DropKey(user_date_filters, u)
    /\ notification_history' = DropKey(notification_history, u)
    /\ UNCHANGED <<job_queue, pureVars, fetchVars, store_faulty, history_file, user_favorites,
                   bot_stations, last_update_time, db_file, fetcherVars, upstream, task,
                   running, cycle_log, outcome, cycles>>

\* handle_date_filter, "date_clear" (run_bot.py:733-737).
ClearDateFilters(u) ==
    /\ HandlerRuns
    /\ u \in DOMAIN user_date_filters
    /\ user_date_filters' = DropKey(user_date_filters, u)
    /\ UNCHANGED <<job_queue, pureVars, fetchVars, store_faulty, notification_history, history_file, user_favorites,
                   bot_stations, last_update_time, db_file, fetcherVars, upstream, task,
                   running, cycle_log, outcome, cycles>>

(***************************************************************************)
(* The bot after construction: the subscriptions, the history and the      *)
(* snapshot are what the files of an earlier run hold.                     *)
(***************************************************************************)
NameA == RawName(1)
NameB == RawName(2)

RetTo(d, wins) == RouteData(StationEntry(d), DatesOutput(wins))
\* The route ids of A -> B with the window of July, and with that of June.
IdJuly == RouteId(NameA, RetTo(2, <<WinJuly>>))
IdJune == RouteId(NameA, RetTo(2, <<WinJune>>))
\* A snapshot that holds A -> B with the window of July.
CatalogJuly ==
    <<[origin |-> NameA, origin_address |-> cleanup_special_characters(RawAddress(1)),
       returns |-> <<RetTo(2, <<WinJuly>>)>>]>>

InitFavorites ==
    { <<>>,
      <<Fav("u1", {NameA})>>,
      <<Fav("u1", {NameA, NameB})>>,
      <<Fav("u1", {NameB}), Fav("u2", {NameA})>> }

InitHistories == { EmptyMap, ("u1" :> <<IdJuly, IdJune>>) }

InitFilters == { EmptyMap, ("u1" :> <<RangeBad, RangeJune>>) }

BotInit ==
    /\ notification_history \in InitHistories
    /\ history_file = IF notification_history = EmptyMap THEN File("absent", <<>>)
                      ELSE File("ok", notification_history)
    /\ user_favorites \in InitFavorites
    /\ user_date_filters \in InitFilters
    /\ db_file \in IF notification_history = EmptyMap THEN {File("absent", <<>>)}
                   ELSE {File("ok", CatalogJuly)}
    /\ bot_stations = LoadStations(db_file)
    /\ last_update_time = 0
    /\ valid_stations = <<>>
    /\ stations_data = EmptyMap
    /\ swr_lists = <<>>
    /\ swr_cur = 0
    /\ output_data = <<>>
    /\ upstream = E2EWorld
    /\ store_faulty = FALSE
    /\ task = [t \in Tasks |-> IdleTask]
    /\ running = "none"
    /\ cycle_log = <<>>
    /\ outcome = <<>>
    /\ cycles = 0
    /\ user_ops = 0
    /\ job_queue = InitialQueue

Init == FetchAtRest /\ BotInit /\ PureAtRest

CycleStep(t) ==
    \/ GetStations(t)
    \/ GetDetail(t)
    \/ CheckStations(t)
    \/ WalkStart(t)
    \/ WalkStation(t)
    \/ WalkEdge(t)
    \/ CheckOrigin(t)
    \/ AfterOriginSend(t)
    \/ CheckDest(t)
    \/ AfterDestSend(t)
    \/ Finish(t)

Handler ==
    \E u \in Users :
        \/ \E selected \in SUBSET AllNames : AddFavorites(u, selected)
        \/ \E selected \in SUBSET AllNames : RemoveFavorites(u, selected)
        \/ AddDateRange(u, RangeJune)
        \/ \E n \in 1..2 : DeleteDateRange(u, n)
        \/ ClearDateFilters(u)

Next ==
    \/ \E t \in Tasks : StartCycle(t)
    \/ \E t \in Tasks : CycleStep(t)
    \/ Handler

Spec == Init /\ [][Next]_vars

(***************************************************************************)
(* The end-to-end scenario: stations A and B, A.returns = [2], one window, *)
(* an offer; no history, no date filter; u1 has "A" in favourites (another *)
(* subscriber may have "B"); two cycles, one after the other, over the     *)
(* same upstream data.                                                     *)
(***************************************************************************)
E2EFavorites ==
    { <<Fav("u1", {NameA})>>,
      <<Fav("u1", {NameA}), Fav("u2", {NameB})>>,
      <<Fav("u2", {NameB}), Fav("u1", {NameA})>> }

InitE2E ==
    /\ FetchAtRest
    /\ PureAtRest
    /\ notification_history = EmptyMap
    /\ history_file = File("absent", <<>>)
    /\ user_favorites \in E2EFavorites
    /\ user_date_filters = EmptyMap
    /\ bot_stations = <<>>
    /\ last_update_time = 0
    /\ db_file = File("absent", <<>>)
    /\ valid_stations = <<>>
    /\ stations_data = EmptyMap
    /\ swr_lists = <<>>
    /\ swr_cur = 0
    /\ output_data = <<>>
    /\ upstream = E2EWorld
    /\ store_faulty \in BOOLEAN
    /\ task = [t \in Tasks |-> IdleTask]
    /\ running = "none"
    /\ cycle_log = <<>>
    /\ outcome = <<>>
    /\ cycles = 0
    /\ user_ops = 0
    /\ job_queue = InitialQueue

StartCycleE2E(t) ==
    /\ \A other \in Tasks : task[other].pc = "idle"
    /\ StartCycleIn(t, E2EWorld)

NextE2E ==
    \/ \E t \in Tasks : StartCycleE2E(t)
    \/ \E t \in Tasks : CycleStep(t)

SpecE2E == InitE2E /\ [][NextE2E]_vars

(***************************************************************************)
(* The walk under failures of the upstream: a new process (nothing on      *)
(* disk, nothing fetched), cycles one after the other, each over any of    *)
(* the catalogs of Worlds; no chat handler runs.                           *)
(***************************************************************************)
InitWalk ==
    /\ FetchAtRest
    /\ PureAtRest
    /\ notification_history = EmptyMap
    /\ history_file = File("absent", <<>>)
    /\ user_favorites \in E2EFavorites
    /\ user_date_filters = EmptyMap
    /\ bot_stations = <<>>
    /\ last_update_time = 0
    /\ db_file = File("absent", <<>>)
    /\ valid_stations = <<>>
    /\ stations_data = EmptyMap
    /\ swr_lists = <<>>
    /\ swr_cur = 0
    /\ output_data = <<>>
    /\ upstream = E2EWorld
    /\ store_faulty = FALSE
    /\ task = [t \in Tasks |-> IdleTask]
    /\ running = "none"
    /\ cycle_log = <<>>
    /\ outcome = <<>>
    /\ cycles = 0
    /\ user_ops = 0
    /\ job_queue = InitialQueue

StartCycleWalk(t) ==
    /\ \A other \in Tasks : task[other].pc = "idle"
    /\ \E w \in Worlds : StartCycleIn(t, w)

NextWalk ==
    \/ \E t \in Tasks : StartCycleWalk(t)
    \/ \E t \in Tasks : CycleStep(t)

SpecWalk == InitWalk /\ [][NextWalk]_vars

(***************************************************************************)
(* Favourites chosen from the names add_favorite offers: a new process,    *)
(* cycles one after the other over a catalog with the routes A -> B and    *)
(* B -> A, the first station named "A" or "Köln"; a subscriber adds        *)
(* favourites once the station list is fetched.                            *)
(***************************************************************************)
BothWaysWorld ==
    World(TRUE, {1, 2}, <<2>>, <<1>>,
          (<<1, 1>> :> <<>>) @@ (<<1, 2>> :> <<WinJuly>>)
              @@ (<<2, 1>> :> <<WinJune>>) @@ (<<2, 2>> :> <<>>),
          {<<1, 2>>, <<2, 1>>})

AccentWorld ==
    [list_ok |-> TRUE, detail_ok |-> BothWaysWorld.detail_ok,
     returns |-> BothWaysWorld.returns, frames |-> BothWaysWorld.frames,
     offers |-> BothWaysWorld.offers, stations |-> AccentedList]

NameWorlds == {BothWaysWorld, AccentWorld}

\* all_stations of add_favorite when the fetcher holds a station list
\* (run_bot.py:576-578): the names as the list endpoint gave them.
OfferedNames == {valid_stations[n].name : n \in 1..Len(valid_stations)} \ {<<>>}

\* add_favorite and the save of the selection (run_bot.py:565-615,
\* 1032-1036), before any walk of this process has begun.
AddOfferedFavorites(u) ==
    /\ valid_stations # <<>>
    /\ \A t \in Tasks : task[t].pc \in {"idle", "detail", "check", "walk_start"}
    /\ \E selected \in SUBSET OfferedNames :
          /\ selected # {}
          /\ AddFavorites(u, selected)

InitNames == FetchAtRest /\ PureAtRest /\ BotAtRest

StartCycleNames(t) ==
    /\ \A other \in Tasks : task[other].pc = "idle"
    /\ \E w \in NameWorlds : StartCycleIn(t, w)

NextNames ==
    \/ \E t \in Tasks : StartCycleNames(t)
    \/ \E t \in Tasks : CycleStep(t)
    \/ \E u \in Users : AddOfferedFavorites(u)

SpecNames == InitNames /\ [][NextNames]_vars

(***************************************************************************)
(* The end-to-end scenario with a process that can be killed while it      *)
(* saves the history, and is started again.  No write fails otherwise.     *)
(***************************************************************************)
\* _load_notification_history (run_bot.py:178-186): {} when the file is
\* missing or json.load raises.
LoadNotificationHistory(f) == IF f.state = "ok" THEN f.content ELSE EmptyMap

\* The process dies in the save of _mark_route_as_notified (run_bot.py:
\* 392-394): before open(), and the file is as it was; after open(path, 'w')
\* has truncated it and before json.dump has written it all; or after the
\* dump.  It is started again: __init__ loads the files (run_bot.py:71-75)
\* and makes a new fetcher (data_fetcher.py:20-28).
CrashDuringMark(t) ==
    /\ task[t].pc \in {"await_o", "await_d"}
    /\ running = "none"
    /\ LET marked == MarkRouteAsNotified(notification_history,
                                         user_favorites[task[t].k].user, task[t].cand)
       IN  history_file' \in {history_file, File("corrupt", <<>>), File("ok", marked)}
    /\ notification_history' = LoadNotificationHistory(history_file')
    /\ bot_stations' = LoadStations(db_file)
    /\ last_update_time' = 0
    /\ valid_stations' = <<>>
    /\ stations_data' = EmptyMap
    /\ swr_lists' = <<>>
    /\ swr_cur' = 0
    /\ output_data' = <<>>
    /\ task' = [x \in Tasks |-> IdleTask]
    /\ running' = "none"
    /\ outcome' = [c \in 1..Len(outcome) |->
                      IF outcome[c] = "running" THEN "crashed" ELSE outcome[c]]
    \* __init__ schedules the job (run_bot.py:85-95)
    /\ job_queue' = InitialQueue
    /\ UNCHANGED <<pureVars, fetchVars, user_favorites, user_date_filters, db_file,
                   upstream, store_faulty, cycle_log, cycles, user_ops>>

InitCrash == InitE2E /\ store_faulty = FALSE

NextCrash ==
    \/ NextE2E
    \/ \E t \in Tasks : CrashDuringMark(t)

SpecCrash == InitCrash /\ [][NextCrash]_vars

(***************************************************************************)
(* The date filter and the route id, called on their own with arguments    *)
(* drawn from small sets.                                                  *)
(***************************************************************************)
Dmy(y, m, d) == DateStr("dmy", y, m, d)

DmyJune == Window(Dmy(2024, 6, 1), Dmy(2024, 6, 10))
DmyJuly == Window(Dmy(2024, 7, 1), Dmy(2024, 7, 5))

\* available_dates entries: 1-10 June, 1-9 June, 21 June - 2 July, a window
\* over the new year, and two with a date that does not parse.
PureWindows ==
    { Window(Dmy(2024, 6, 1), Dmy(2024, 6, 10)),
      Window(Dmy(2024, 6, 1), Dmy(2024, 6, 9)),
      Window(Dmy(2024, 6, 21), Dmy(2024, 7, 2)),
      Window(Dmy(2023, 12, 30), Dmy(2024, 1, 2)),
      Window(BadDate, Dmy(2024, 6, 15)),
      Window(Dmy(2024, 6, 15), BadDate) }

\* Date ranges of a subscriber: 10-20 June, July, December 2023, two with a
\* date that does not parse, and one written day first.
PureRanges ==
    { RangeJune,
      DateRange(Ymd(2024, 7, 1), Ymd(2024, 7, 31)),
      DateRange(Ymd(2023, 12, 1), Ymd(2023, 12, 31)),
      RangeBad,
      DateRange(Ymd(2024, 6, 10), BadDate),
      DateRange(Dmy(2024, 6, 10), Dmy(2024, 6, 20)) }

SeqsUpTo(S, n) == UNION { [1..k -> S] : k \in 0..n }

\* A route A -> B with the given dates and vehicle.
RouteWith(addr, dates, model, image) ==
    [origin |-> NameA, origin_address |-> addr,
     returns |-> << [RouteData(StationEntry(2), dates) EXCEPT
                       !.model_name = model, !.model_image = image] >>]

\* user_date_filters: u1 without a key or with up to MaxRanges ranges, u2
\* without a key, with a range that does not parse or with a range.
PureFilters ==
    { mine @@ theirs :
        mine \in {EmptyMap} \cup { ("u1" :> rs) : rs \in SeqsUpTo(PureRanges, MaxRanges) },
        theirs \in {EmptyMap, ("u2" :> <<RangeBad>>), ("u2" :> <<RangeJune>>)} }

FilterCalls ==
    { [fn |-> "route_passes_date_filter", filters |-> f, user |-> "u1",
       station |-> RouteWith(<<"a", "1">>, ws, "Camper", "camper.jpg"),
       other |-> NoStation] :
        f \in PureFilters, ws \in SeqsUpTo(PureWindows, MaxWindows) }

\* Two routes A -> B: dates in any order, any vehicle, any address.
IdRoutes ==
    { RouteWith(addr, ws, model, image) :
        addr \in {<<"a", "1">>, <<"a", "2">>},
        ws \in SeqsUpTo({DmyJune, DmyJuly}, MaxWindows),
        model \in {"Camper", "Unknown"},
        image \in {"camper.jpg", ""} }

IdCalls ==
    { [fn |-> "route_id", filters |-> EmptyMap, user |-> u, station |-> a, other |-> b] :
        u \in Users, a \in IdRoutes, b \in IdRoutes }

InitPure ==
    /\ FetchAtRest
    /\ BotAtRest
    /\ fn_call \in FilterCalls \cup IdCalls
    /\ fn_result = <<>>

\* _route_passes_date_filter(user_id, ret) is called and returns.
CallRoutePassesDateFilter ==
    /\ fn_call.fn = "route_passes_date_filter"
    /\ fn_result = <<>>
    /\ fn_result' = << RoutePassesDateFilter(fn_call.filters, fn_call.user,
                                             fn_call.station.returns[1]) >>
    /\ UNCHANGED <<fn_call, fetchVars, botVars, fetcherVars, loopVars>>

\* What the three places that build a route id make of a route, seen through
\* the functions that hold them: the list _mark_route_as_notified leaves for
\* a subscriber without history, whether _is_new_route then finds the route
\* new, and what _check_deleted_routes keeps of that list when the route is
\* the catalog.
IdsOf(u, station) ==
    LET marked == MarkRouteAsNotified(EmptyMap, u, station)
    IN  [marked |-> marked[u],
         is_new |-> IsNewRoute(marked, u, station),
         kept |-> CheckDeletedRoutes(marked, <<station>>)[u]]

\* The route ids of the two routes of the call are computed.
CallRouteIds ==
    /\ fn_call.fn = "route_id"
    /\ fn_result = <<>>
    /\ fn_result' = << [a |-> IdsOf(fn_call.user, fn_call.station),
                        b |-> IdsOf(fn_call.user, fn_call.other),
                        a_other_user |-> IdsOf(CHOOSE v \in Users : v # fn_call.user,
                                               fn_call.station)] >>
    /\ UNCHANGED <<fn_call, fetchVars, botVars, fetcherVars, loopVars>>

NextPure == CallRoutePassesDateFilter \/ CallRouteIds

SpecPure == InitPure /\ [][NextPure]_vars

(***************************************************************************)
(* cleanup_special_characters called on a string, and again on what it     *)
(* returned.                                                               *)
(***************************************************************************)
\* Characters of each kind the function tells apart: replaced by two letters,
\* by one, by a quote (which is then removed), by nothing, by a space;
\* removed; whitespace; and left alone.
TextChars ==
    {"a-uml", "e-acute", "lsquo", ",", "-", "(", " ", "tab", "newline", "x"}

CleanupCalls ==
    { [fn |-> "cleanup_special_characters", address |-> a] :
        a \in SeqsUpTo(TextChars, MaxLen) }

InitText ==
    /\ FetchAtRest
    /\ BotAtRest
    /\ fn_call \in CleanupCalls
    /\ fn_result = <<>>

\* cleanup_special_characters is called: on the string first, then on what the
\* call before returned.
CallCleanup ==
    /\ fn_call.fn = "cleanup_special_characters"
    /\ Len(fn_result) < 2
    /\ fn_result' = Append(fn_result,
                           cleanup_special_characters(
                               IF fn_result = <<>> THEN fn_call.address
                               ELSE fn_result[Len(fn_result)]))
    /\ UNCHANGED <<fn_call, fetchVars, botVars, fetcherVars, loopVars>>

NextText == CallCleanup

SpecText == InitText /\ [][NextText]_vars

(***************************************************************************)
(* Properties.                                                             *)
(***************************************************************************)
\* The fingerprints recorded for a subscriber.
HistoryOf(history, u) == IF u \in DOMAIN history THEN Range(history[u]) ELSE {}

\* The subscriber whose candidate task t is processing.
CandUser(t) == user_favorites[task[t].k].user

\* Task t comes back from _notify_user and marks its candidate.
MarkStep(t) == task[t].pc \in {"await_o", "await_d"} /\ task'[t].pc = "cb_dest"

\* Task t ends its cycle without raising.
CompleteStep(t) ==
    /\ task[t].pc = "finish"
    /\ task'[t].pc = "idle"
    /\ outcome'[task[t].c] = "completed"

\* The events of a log for subscriber u.
EventsOf(log, u) == SelectSeq(log, LAMBDA e : e.user = u)

\* C1: once _mark_route_as_notified(u, c) has run, _is_new_route(u, c) is
\* False and c is not notified to u again until a reconciliation removes its
\* fingerprint: a mark leaves the candidate not new; a notification is emitted
\* for (u, c) only when no fingerprint of c is in history[u]; and a
\* fingerprint leaves history[u] only in the step that ends a cycle, where
\* _check_deleted_routes runs.
C1_NotifiedOnceUntilReconciled ==
    [][ /\ \A t \in Tasks :
             MarkStep(t) => ~IsNewRoute(notification_history', CandUser(t), task[t].cand)
        /\ \A c \in DOMAIN cycle_log :
             Len(cycle_log'[c]) > Len(cycle_log[c]) =>
                LET e == cycle_log'[c][Len(cycle_log'[c])]
                IN  /\ e.station.returns # <<>>
                    /\ \A n \in 1..Len(e.station.returns) :
                         RouteIds(e.station)[n] \notin HistoryOf(notification_history, e.user)
        /\ \A u \in DOMAIN notification_history :
             \/ /\ u \in DOMAIN notification_history'
                /\ Range(notification_history[u]) \subseteq Range(notification_history'[u])
             \/ \E t \in Tasks : task[t].pc = "finish" /\ task'[t].pc = "idle"
      ]_vars

\* A route notified in the first cycle is processed again in the second, for
\* the same subscriber, and is not new: nothing is emitted.
C1_SeenAgainNotNotified ==
    \E t \in Tasks :
        LET T == task[t]
        IN  /\ T.pc = "cb_dest" /\ T.c = 2 /\ T.r = 1 /\ T.cand = NoStation
            /\ T.route.origin \in FavoriteStations(t)
            /\ ~IsNewRoute(notification_history, CandUser(t), T.route)
            /\ \E n \in 1..Len(cycle_log[1]) :
                 cycle_log[1][n] = Event(CandUser(t), T.route, TRUE)
            /\ cycle_log[2] = <<>>

\* A step of _check_and_notify_route that evaluates its conditions.
CheckStep(t) == task[t].pc \in {"cb_user", "cb_dest"} /\ task'[t] # task[t]

\* C2: _is_new_route is read-only: a step that evaluates the novelty check
\* leaves notification_history as it was, so that asking again, for any
\* subscriber and the same candidate, gives the same answer.
C2_IsNewRouteReadsOnly ==
    [][ \A t \in Tasks :
          CheckStep(t) =>
             /\ notification_history' = notification_history
             /\ \A u \in Users :
                  IsNewRoute(notification_history', u, task[t].route)
                     = IsNewRoute(notification_history, u, task[t].route)
      ]_vars

\* The novelty of one candidate was asked twice, for the origin match and for
\* the destination match, with no mark in between: twice "not new".
C2_AskedTwiceNotNew ==
    \E t \in Tasks :
        LET T == task[t]
        IN  /\ T.pc = "cb_dest" /\ T.r = 2 /\ Len(T.route.returns) = 1
            /\ T.route.origin \in FavoriteStations(t)
            /\ T.route.returns[1].destination \in FavoriteStations(t)
            /\ RoutePassesDateFilter(user_date_filters, CandUser(t), T.route.returns[1])
            /\ ~IsNewRoute(notification_history, CandUser(t), T.route)
            /\ cycle_log[T.c] = <<>>

\* The route of the end-to-end scenario: A -> B with its window.
E2ERoute == CatalogJuly[1]

\* C3: in the end-to-end scenario (A.returns = [2], one window, an offer, no
\* history, u1 has "A" in favourites and no date filter) the first cycle emits
\* exactly one notification for u1, with is_origin = True, and a second cycle
\* over the same upstream data emits none for u1.
C3_OneThenNone ==
    /\ Len(cycle_log) >= 1 =>
          /\ Len(EventsOf(cycle_log[1], "u1")) <= 1
          /\ outcome[1] # "running" =>
                EventsOf(cycle_log[1], "u1") = <<Event("u1", E2ERoute, TRUE)>>
    /\ Len(cycle_log) >= 2 => EventsOf(cycle_log[2], "u1") = <<>>

\* Both cycles have completed: one notification for u1, then none.
C3_TwoCyclesDone ==
    /\ Len(outcome) = 2
    /\ outcome[1] = "completed"
    /\ outcome[2] = "completed"
    /\ EventsOf(cycle_log[1], "u1") = <<Event("u1", E2ERoute, TRUE)>>
    /\ EventsOf(cycle_log[2], "u1") = <<>>

\* The events of a log for subscriber u about the route from origin o to
\* destination d, and the fingerprints of that route in a history.
EventsAbout(log, u, o, d) ==
    SelectSeq(log, LAMBDA e : /\ e.user = u
                              /\ e.station.origin = o
                              /\ \E n \in 1..Len(e.station.returns) :
                                   e.station.returns[n].destination = d)
FingerprintsAbout(history, u, o, d) ==
    {id \in HistoryOf(history, u) : id[1] = o /\ id[2] = d}

\* C4: a subscriber whose favourites hold both the origin and the destination
\* of a discovered route gets two notifications for it, one with is_origin =
\* True and one with is_origin = False, and has then two distinct
\* fingerprints of it in the history.  Stated where the processing of the
\* route for the subscriber is over and the route was notified.
C4_TwoEventsTwoFingerprints ==
    \A t \in Tasks :
        LET T == task[t]
            o == T.route.origin
            d == T.route.returns[1].destination
            evs == EventsAbout(cycle_log[T.c], CandUser(t), o, d)
        IN  ( /\ T.pc = "cb_dest"
              /\ T.r > Len(T.route.returns)
              /\ o \in FavoriteStations(t)
              /\ d \in FavoriteStations(t)
              /\ evs # <<>> )
            => /\ \E n \in 1..Len(evs) : evs[n].is_origin
               /\ \E n \in 1..Len(evs) : ~evs[n].is_origin
               /\ Cardinality(FingerprintsAbout(notification_history, CandUser(t), o, d)) >= 2

\* The fingerprints of the routes of a catalog.
Fingerprints(catalog) ==
    UNION { { RouteId(catalog[n].origin, catalog[n].returns[m]) :
                m \in 1..Len(catalog[n].returns) } : n \in 1..Len(catalog) }

\* The elements of a sequence that are in a set, in their order.
Restrict(seq, S) == SelectSeq(seq, LAMBDA x : x \in S)

\* C5: the reconciliation at the end of a cycle, run on the catalog read back
\* from the snapshot, leaves for every subscriber exactly the old history
\* restricted to the fingerprints of the catalog's routes, in the old order;
\* it adds no fingerprint and adds or removes no subscriber.
C5_ReconcileRestricts ==
    [][ \A t \in Tasks :
          ( /\ CompleteStep(t)
            /\ LoadStations(db_file') # <<>>
            /\ ~ task[t].retnone )
          => /\ DOMAIN notification_history' = DOMAIN notification_history
             /\ \A u \in DOMAIN notification_history :
                  notification_history'[u] =
                     Restrict(notification_history[u], Fingerprints(LoadStations(db_file')))
      ]_vars

\* The history {u1: [fpA, fpB]} met a catalog that holds only the route of
\* fpA and is now {u1: [fpA]}: nothing was notified in the cycle.
C5_ExampleReconciled ==
    /\ Len(outcome) = 1
    /\ outcome[1] = "completed"
    /\ cycle_log[1] = <<>>
    /\ Fingerprints(LoadStations(db_file)) = {IdJuly}
    /\ notification_history = ("u1" :> <<IdJuly>>)

\* Task t asks, for the subscriber of its loop, whether the route matched as
\* origin is new; and whether the route matched as destination is.
OriginAsked(t) ==
    LET T == task[t]
    IN  /\ T.pc = "cb_user"
        /\ task'[t] # T
        /\ Len(user_favorites) = T.n0
        /\ T.k <= T.n0
        /\ T.route.origin \in FavoriteStations(t)
        /\ FilteredReturns(user_date_filters, CandUser(t), T.route) # <<>>
DestAsked(t) ==
    LET T == task[t]
    IN  /\ T.pc = "cb_dest"
        /\ task'[t] # T
        /\ T.r <= Len(T.route.returns)
        /\ T.route.returns[T.r].destination \in FavoriteStations(t)
        /\ RoutePassesDateFilter(user_date_filters, CandUser(t), T.route.returns[T.r])

\* C6: a route that matches a subscriber's favourites and date filter and
\* whose fingerprint is not in the subscriber's history (never recorded, or
\* removed by a reconciliation) is treated as new: a notification is emitted
\* for the subscriber.
C6_AbsentFingerprintIsNotified ==
    [][ \A t \in Tasks :
          LET T == task[t]
              u == CandUser(t)
          IN  /\ OriginAsked(t) =>
                   LET filtered_route ==
                         [T.route EXCEPT
                            !.returns = FilteredReturns(user_date_filters, u, T.route)]
                   IN  (\A n \in 1..Len(filtered_route.returns) :
                           RouteIds(filtered_route)[n] \notin HistoryOf(notification_history, u))
                       => cycle_log'[T.c] =
                             Append(cycle_log[T.c], Event(u, filtered_route, TRUE))
              /\ DestAsked(t) =>
                   LET dest_route == [T.route EXCEPT !.returns = <<T.route.returns[T.r]>>]
                   IN  RouteId(T.route.origin, T.route.returns[T.r])
                          \notin HistoryOf(notification_history, u)
                       => cycle_log'[T.c] = Append(cycle_log[T.c], Event(u, dest_route, FALSE))
      ]_vars

\* The history held the fingerprint of A -> B with the window of June; the
\* first cycle found only the window of July, notified nothing and
\* reconciled; the second cycle found the window of June again and u1 was
\* notified of it.
C6_RenotifiedAfterRemoval ==
    /\ Len(cycle_log) = 2
    /\ outcome[1] = "completed"
    /\ cycle_log[1] = <<>>
    /\ IdJuly \in HistoryOf(notification_history, "u1")
    /\ \E n \in 1..Len(cycle_log[2]) :
         /\ cycle_log[2][n].user = "u1"
         /\ RouteIds(cycle_log[2][n].station) = <<IdJune>>

\* C7: when a cycle completes without raising, every fingerprint left in a
\* subscriber's history is the fingerprint of a route of the catalog that
\* this cycle discovered, also when that catalog is empty.
C7_HistoryWithinCycleCatalog ==
    [][ \A t \in Tasks :
          CompleteStep(t) =>
             \A u \in DOMAIN notification_history' :
                Range(notification_history'[u]) \subseteq Fingerprints(bot_stations')
      ]_vars

\* C8: a fingerprint is recorded for a subscriber only when the notification
\* was delivered: after a send that failed, the candidate is still new.
C8_FailedSendNotRecorded ==
    \A t \in Tasks :
        task[t].sent = "no" =>
           IsNewRoute(notification_history, CandUser(t), task[t].cand)

\* The answers to the requests of the current call, in order.
Answers(tr) ==
    LET reqs == SelectSeq(tr, LAMBDA x : x.op = "request")
    IN  [n \in 1..Len(reqs) |-> reqs[n].resp]

\* C9: with max_retries = 3, a call that meets HTTP 429 three times and then
\* a 200 issues exactly 4 requests and returns the payload.
C9_ThreeRateLimitsThenPayload ==
    ( /\ fetch_pc = "done"
      /\ fetch_calls = 1
      /\ max_retries = 3
      /\ SubSeq(fetch_script, 1, 4) = <<"s429", "s429", "s429", "ok">> )
    => /\ CountRequests(fetch_trace) = 4
       /\ fetch_result = "payload"

RequestMet(tr, i, rs) == tr[i].op = "request" /\ tr[i].resp \in rs

\* The requests among the first i steps of a trace.
RequestsUpTo(tr, i) == CountRequests(SubSeq(tr, 1, i))

\* C11: a call that meets an HTTP error status other than 429, on whichever
\* attempt, returns at once without a payload: that request is the last step
\* of the call, no wait and no request follows it.
C11_OtherHttpErrorReturnsAtOnce ==
    \A i \in 1..Len(fetch_trace) :
        RequestMet(fetch_trace, i, {"httperr", "s500"}) =>
            /\ i = Len(fetch_trace)
            /\ fetch_pc = "done"
            /\ fetch_result = "None"

\* A call was rate-limited once, met another HTTP error on its second
\* attempt and has returned.
C11_RejectedOnSecondAttempt ==
    /\ fetch_pc = "done"
    /\ Answers(fetch_trace) = <<"s429", "httperr">>
    /\ fetch_result = "None"

\* C12: a call that meets a 5xx status on an attempt that is not its last
\* goes on to a backoff wait and another request instead of returning.
C12_ServerErrorIsRetried ==
    \A i \in 1..Len(fetch_trace) :
        ( /\ RequestMet(fetch_trace, i, {"s500"})
          /\ RequestsUpTo(fetch_trace, i) < max_retries )
        => /\ i < Len(fetch_trace)
           /\ fetch_trace[i + 1].op = "sleep"
           /\ fetch_pc = "try"

\* The waits between step i of a trace and the next request after it
\* (everything to the end of the trace when no request follows).
RECURSIVE WaitAfter(_, _)
WaitAfter(tr, i) ==
    IF i >= Len(tr) \/ tr[i + 1].op = "request" THEN 0
    ELSE tr[i + 1].t + WaitAfter(tr, i + 1)

\* A request follows step i of a trace.
RequestFollows(tr, i) == \E j \in (i + 1)..Len(tr) : tr[j].op = "request"

\* C13: the waits between the n-th failed attempt of a call and its next
\* request add up to retry_delay * 2^(n-1).
C13_BackoffIsRetryDelayTimesPow2 ==
    \A i \in 1..Len(fetch_trace) :
        (fetch_trace[i].op = "request" /\ RequestFollows(fetch_trace, i)) =>
            WaitAfter(fetch_trace, i) =
                retry_delay * Pow2(RequestsUpTo(fetch_trace, i) - 1)

\* C14: a call that meets a 200 whose body does not parse returns without a
\* payload after that request, the only one of the call.
C14_BadJsonNotRetried ==
    \A i \in 1..Len(fetch_trace) :
        RequestMet(fetch_trace, i, {"badjson"}) =>
            /\ i = Len(fetch_trace)
            /\ fetch_pc = "done"
            /\ CountRequests(fetch_trace) = 1
            /\ fetch_result = "None"

\* The responses of a failed request other than HTTP 429.
OtherFailures == {"badjson", "httperr", "s500", "non200", "transport"}

\* C15: what a call returns after HTTP 429 on each of its max_retries
\* attempts is returned by no call that failed for another reason.
C15_RateLimitedIsDistinct ==
    ( /\ fetch_pc = "done"
      /\ Len(Answers(fetch_trace)) = max_retries
      /\ \A n \in 1..max_retries : Answers(fetch_trace)[n] = "s429" )
    => fetch_result \notin {ResultOf(r) : r \in OtherFailures}


\* A request of the fetcher's log comes right after a wait of at least
\* request_delay.
WaitedBefore(i) ==
    /\ i > 1
    /\ fetcher_log[i - 1].op = "sleep"
    /\ fetcher_log[i - 1].t >= request_delay

C17_ListFailureAbortsCycle ==
    (cycles > 0 /\ ~upstream.list_ok) =>
        /\ \A t \in Tasks : task[t].pc \in {"idle", "fetch", "check"}
        /\ cycle_log[cycles] = <<>>
        /\ outcome[cycles] \in {"running", "failed"}

\* The name under which station d appears in a route.
NameOf(d) == cleanup_special_characters(RawName(d))

\* The destinations of a list of route_data.
DestNames(returns) == [n \in 1..Len(returns) |-> returns[n].destination]

\* The pair has a window that parses and an offer.
GoodEdge(w, o, d) ==
    /\ DatesOutput(w.frames[<<o, d>>]) # <<>>
    /\ <<o, d>> \in w.offers

\* The names of the destinations among ds whose pair with o is good, in order.
GoodDests(w, o, ds) ==
    LET good == SelectSeq(ds, LAMBDA d : GoodEdge(w, o, d))
    IN  [n \in 1..Len(good) |-> NameOf(good[n])]

\* The catalog a walk over w returns: an entry for every station that has
\* returns, holding its good pairs.
RECURSIVE GoodCatalog(_, _)
GoodCatalog(w, ids) ==
    IF ids = <<>> THEN <<>>
    ELSE (IF w.returns[Head(ids)] = <<>> THEN <<>>
          ELSE << <<NameOf(Head(ids)),
                    GoodDests(w, Head(ids), w.returns[Head(ids)])>> >>)
         \o GoodCatalog(w, Tail(ids))

\* The catalog of output_data, as origins and destinations.
CatalogOf(out) ==
    [n \in 1..Len(out) |-> <<out[n].origin, DestNames(out[n].returns)>>]

\* C18: a pair whose timeframe fetch or offer fetch gave nothing is skipped
\* and nothing else is: the routes gathered for an origin are, at every point
\* of its loop, those of all its pairs met so far that have a window and an
\* offer; each of them is handed to the callback; and the catalog the walk
\* returns holds every such pair of every origin.
C18_OnlyTheFailedPairSkipped ==
    \A t \in Tasks :
        LET T == task[t]
            station == swr_lists[T.wl][T.i]
        IN  /\ T.pc = "edge" =>
                 DestNames(T.out.returns) =
                     GoodDests(upstream, station.id,
                               SubSeq(station.returns, 1, T.j - 1))
            /\ T.pc \in {"cb_user", "await_o", "cb_dest", "await_d"} =>
                 /\ GoodEdge(upstream, station.id, station.returns[T.j])
                 /\ DestNames(T.route.returns) = <<NameOf(station.returns[T.j])>>
                 /\ DestNames(T.out.returns) =
                        GoodDests(upstream, station.id,
                                  SubSeq(station.returns, 1, T.j))
            /\ (T.pc = "finish" /\ ~T.retnone) =>
                 CatalogOf(output_data) = GoodCatalog(upstream, <<1, 2>>)

\* A walk has returned over a catalog in which the first pair of A gave no
\* route, and the catalog holds the pair after it and the pair of B.
C18_SiblingAndOtherOriginKept ==
    \E t \in Tasks :
        /\ task[t].pc = "finish"
        /\ ~task[t].retnone
        /\ upstream.returns[1] = <<2, 1>>
        /\ ~GoodEdge(upstream, 1, 2)
        /\ CatalogOf(output_data) =
              << <<NameOf(1), <<NameOf(1)>> >>, <<NameOf(2), <<NameOf(1)>> >> >>

\* C19: the walk goes past a station whose detail could not be fetched: no
\* station of the list it walks makes the validation raise.
C19_WalkPassesFailedDetail ==
    \A t \in Tasks :
        (task[t].pc = "station" /\ task[t].i <= Len(swr_lists[task[t].wl])) =>
            ~ValidateRaises(swr_lists[task[t].wl][task[t].i])

\* C20: every pair of an origin met so far that has a window that parses has
\* a route among those gathered for the origin, offers or not.
C20_RouteWithoutVehicleData ==
    \A t \in Tasks :
        LET T == task[t]
            station == swr_lists[T.wl][T.i]
        IN  T.pc = "edge" =>
              \A n \in 1..(T.j - 1) :
                  DatesOutput(GetStationTransferDates(upstream, station.id,
                                                      station.returns[n])) # <<>>
                  => \E m \in 1..Len(T.out.returns) :
                        T.out.returns[m].destination = NameOf(station.returns[n])


\* The windows of an upstream answer whose two dates parse, as the route
\* carries them.
ParsedWindows(ws) ==
    LET ok == SelectSeq(ws, LAMBDA x : /\ ParsesAsIsoDate(x.startDate)
                                       /\ ParsesAsIsoDate(x.endDate))
    IN  [n \in 1..Len(ok) |->
            Window(FormatDMY(ok[n].startDate), FormatDMY(ok[n].endDate))]

\* The destinations among ds whose pair with o has an offer and a window that
\* parses, in order.
WindowedDests(w, o, ds) ==
    SelectSeq(ds, LAMBDA d : /\ ParsedWindows(w.frames[<<o, d>>]) # <<>>
                             /\ <<o, d>> \in w.offers)

\* The routes carry, pair by pair, the parsed windows of the upstream.
CarriesParsedWindows(returns, w, o, ds) ==
    /\ Len(returns) = Len(ds)
    /\ \A m \in 1..Len(returns) :
          /\ returns[m].destination = NameOf(ds[m])
          /\ returns[m].available_dates = ParsedWindows(w.frames[<<o, ds[m]>>])
          /\ returns[m].available_dates # <<>>

\* C21: the routes gathered for an origin, the route handed to the callback
\* and the routes of the catalog hold the windows of the upstream answer
\* whose start and end parse, in upstream order, and at least one; a pair
\* none of whose windows parses has no route.
C21_RoutesCarryParsedWindows ==
    /\ \A t \in Tasks :
        LET T == task[t]
            station == swr_lists[T.wl][T.i]
        IN  /\ T.pc = "edge" =>
                 CarriesParsedWindows(T.out.returns, upstream, station.id,
                     WindowedDests(upstream, station.id,
                                   SubSeq(station.returns, 1, T.j - 1)))
            /\ T.pc \in {"cb_user", "await_o", "cb_dest", "await_d"} =>
                 /\ CarriesParsedWindows(T.route.returns, upstream, station.id,
                                         <<station.returns[T.j]>>)
                 /\ CarriesParsedWindows(T.out.returns, upstream, station.id,
                        WindowedDests(upstream, station.id,
                                      SubSeq(station.returns, 1, T.j)))
    /\ \A n \in 1..Len(output_data) :
          \A m \in 1..Len(output_data[n].returns) :
              output_data[n].returns[m].available_dates # <<>>

\* The route of a pair whose first window does not parse is with the
\* callback, holding the second window.
C21_BadWindowDropped ==
    \E t \in Tasks :
        /\ task[t].pc = "cb_user"
        /\ upstream.frames[<<1, 2>>] = <<WinBad, WinJune>>
        /\ task[t].route.returns[1].available_dates =
              <<Window(FormatDMY(WinJune.startDate), FormatDMY(WinJune.endDate))>>


\* The coroutine is inside the route callback.
InCallback(T) == T.pc \in {"cb_user", "await_o", "cb_dest", "await_d"}

\* The callback has gone through every subscriber, or has raised.
CallbackOver(T) ==
    T.pc = "cb_user" /\ (T.k > T.n0 \/ Len(user_favorites) # T.n0)

\* C22: the step that finalizes a route hands that route, and only it, to
\* the callback; a route is added to those of the origin in no other step;
\* while the callback runs the walk stays on its edge with the routes it has;
\* and it moves to the next edge, once, when the callback is over.
C22_CallbackAwaitedPerRoute ==
    [][ \A t \in Tasks :
          LET T == task[t]
              N == task'[t]
          IN  /\ (T.pc = "edge" /\ N.pc = "edge") => N.out = T.out /\ N.i = T.i
              /\ (T.pc = "edge" /\ N.pc = "cb_user") =>
                    /\ N.i = T.i /\ N.j = T.j
                    /\ Len(N.out.returns) = Len(T.out.returns) + 1
                    /\ SubSeq(N.out.returns, 1, Len(T.out.returns)) = T.out.returns
                    /\ N.route.returns = <<N.out.returns[Len(N.out.returns)]>>
              /\ InCallback(T) =>
                    \/ /\ InCallback(N)
                       /\ N.i = T.i /\ N.j = T.j
                       /\ N.out = T.out /\ N.route = T.route
                    \/ /\ CallbackOver(T)
                       /\ N.pc = "edge"
                       /\ N.i = T.i /\ N.j = T.j + 1
                       /\ N.out = T.out
      ]_vars

\* The callback of the first route of an origin is over, a notification was
\* emitted in it, and the walk is at the next edge.
C22_BackFromCallback ==
    \E t \in Tasks :
        /\ task[t].pc = "edge"
        /\ task[t].j = 2
        /\ Len(task[t].out.returns) = 1
        /\ cycle_log[task[t].c] # <<>>


\* The ranges of the subscriber of the call.
CallRanges ==
    IF fn_call.user \in DOMAIN fn_call.filters THEN fn_call.filters[fn_call.user]
    ELSE <<>>

\* The windows of the route of the call.
CallWindows == fn_call.station.returns[1].available_dates

FilterReturned == fn_call.fn = "route_passes_date_filter" /\ fn_result # <<>>

\* Window x and range f both parse and share a day, boundaries included.
OverlapsInclusive(x, f) ==
    /\ ParsesAsDMY(x.startDate) /\ ParsesAsDMY(x.endDate)
    /\ ParsesAsYMD(f.start) /\ ParsesAsYMD(f.end)
    /\ DateOrd(x.startDate) <= DateOrd(f.end)
    /\ DateOrd(x.endDate) >= DateOrd(f.start)

\* C23: _route_passes_date_filter returns True exactly when the subscriber
\* has no range, or a window of the route that parses and a range that parses
\* overlap, boundaries included: the window 1-10 June passes the range
\* 10-20 June, the window 1-9 June does not.
C23_PassesIffInclusiveOverlap ==
    FilterReturned =>
        /\ fn_result[1] =
              ( \/ CallRanges = <<>>
                \/ \E x \in Range(CallWindows), f \in Range(CallRanges) :
                       OverlapsInclusive(x, f) )
        /\ (CallRanges = <<RangeJune>> /\ CallWindows = <<DmyJune>>) => fn_result[1]
        /\ ( /\ CallRanges = <<RangeJune>>
             /\ CallWindows = <<Window(Dmy(2024, 6, 1), Dmy(2024, 6, 9))>> )
           => ~fn_result[1]

\* The filter has returned True for the window 1-10 June against the range
\* 10-20 June.
C23_BoundaryPasses ==
    /\ FilterReturned
    /\ CallRanges = <<RangeJune>>
    /\ CallWindows = <<DmyJune>>
    /\ fn_result = <<TRUE>>

\* The ranges of the subscriber of the call that parse.
ParseableRanges ==
    SelectSeq(CallRanges, LAMBDA f : ParsesAsYMD(f.start) /\ ParsesAsYMD(f.end))

\* C24: when some range of the subscriber parses, the filter returns what it
\* returns for that subscriber alone with the ranges that parse alone: a
\* range that does not parse changes nothing for the other ranges, and the
\* ranges of another subscriber, parseable or not, change nothing.
C24_BadRangeSkippedAlone ==
    (FilterReturned /\ ParseableRanges # <<>>) =>
        fn_result[1] =
            RoutePassesDateFilter((fn_call.user :> ParseableRanges), fn_call.user,
                                  fn_call.station.returns[1])

\* The filter has returned True for a subscriber whose first range does not
\* parse and whose second range overlaps the route, while another subscriber
\* has a range that does not parse.
C24_PassesByTheOtherRange ==
    /\ FilterReturned
    /\ CallRanges = <<RangeBad, RangeJune>>
    /\ "u2" \in DOMAIN fn_call.filters
    /\ fn_call.filters["u2"] = <<RangeBad>>
    /\ CallWindows = <<DmyJune>>
    /\ fn_result = <<TRUE>>


IdsReturned == fn_call.fn = "route_id" /\ fn_result # <<>>

\* The two routes of the call have the same origin and destination.
SameEndpoints ==
    /\ fn_call.station.origin = fn_call.other.origin
    /\ fn_call.station.returns[1].destination = fn_call.other.returns[1].destination

\* Two lists hold the same windows, each as many times, in any order.
SameWindows(x, y) ==
    /\ Len(x) = Len(y)
    /\ \E p \in Permutations(1..Len(x)) : \A n \in 1..Len(x) : y[n] = x[p[n]]

\* C25: two routes with the same origin, the same destination and the same
\* windows in any order get the same route id.
C25_IdIgnoresWindowOrder ==
    ( /\ IdsReturned
      /\ SameEndpoints
      /\ SameWindows(fn_call.station.returns[1].available_dates,
                     fn_call.other.returns[1].available_dates) )
    => fn_result[1].a.marked = fn_result[1].b.marked

\* Origin, destination and the start and end of each window, in order.
KeyOf(station) ==
    <<station.origin, station.returns[1].destination>>
        \o DateTokens(station.returns[1].available_dates)

\* C26: the id _mark_route_as_notified records for a route is made of its
\* origin, its destination and the dates of its windows in order, and of
\* nothing else (two routes that agree on these get the same id whatever
\* their vehicle, image and addresses, and whoever the subscriber is);
\* _is_new_route finds that id in the history, and _check_deleted_routes
\* finds it in the catalog.
C26_IdIsFunctionOfKey ==
    IdsReturned =>
        LET r == fn_result[1]
        IN  /\ r.a.marked = <<KeyOf(fn_call.station)>>
            /\ r.b.marked = <<KeyOf(fn_call.other)>>
            /\ r.a_other_user.marked = r.a.marked
            /\ ~r.a.is_new /\ ~r.b.is_new
            /\ r.a.kept = r.a.marked /\ r.b.kept = r.b.marked
            /\ KeyOf(fn_call.station) = KeyOf(fn_call.other) =>
                   r.a.marked = r.b.marked

\* The ids of two routes with the same windows and different vehicle, image
\* and address were computed, and are the same.
C26_SameIdOtherVehicle ==
    /\ IdsReturned
    /\ fn_call.station.returns[1].available_dates = <<DmyJune, DmyJuly>>
    /\ fn_call.other.returns[1].available_dates = <<DmyJune, DmyJuly>>
    /\ fn_call.station.returns[1].model_name # fn_call.other.returns[1].model_name
    /\ fn_call.station.returns[1].model_image # fn_call.other.returns[1].model_image
    /\ fn_call.station.origin_address # fn_call.other.origin_address
    /\ fn_result[1].a.marked = fn_result[1].b.marked


\* C27: while no write can fail, every step in which _mark_route_as_notified
\* or _check_deleted_routes runs, and every step that changes the history in
\* memory or the store, leaves in the store the whole history that is in
\* memory.
C27_StoreFollowsMemory ==
    [][ ( /\ ~store_faulty
          /\ \/ \E t \in Tasks : MarkStep(t)
             \/ notification_history' # notification_history
             \/ history_file' # history_file )
        => history_file' = File("ok", notification_history')
      ]_vars

\* A route was recorded for a subscriber and the store holds the history
\* that is in memory.
C27_MarkedAndStored ==
    \E t \in Tasks :
        /\ ~store_faulty
        /\ task[t].pc = "cb_dest"
        /\ task[t].sent # "none"
        /\ ~IsNewRoute(notification_history, CandUser(t), task[t].cand)
        /\ history_file = File("ok", notification_history)


\* C28: whether or not the store could be written, a mark leaves its
\* fingerprints in memory (the candidate is not new right after it) and the
\* coroutine goes on with its callback, no cycle having failed; and a cycle
\* that ends completed leaves in memory the history reconciled with the
\* catalog it saved.
C28_MemoryKeptWhenWriteFails ==
    [][ \A t \in Tasks :
          /\ MarkStep(t) =>
                /\ notification_history' =
                      MarkRouteAsNotified(notification_history, CandUser(t),
                                          task[t].cand)
                /\ ~IsNewRoute(notification_history', CandUser(t), task[t].cand)
                /\ outcome' = outcome
          /\ (CompleteStep(t) /\ LoadStations(db_file') # <<>>) =>
                notification_history' =
                    CheckDeletedRoutes(notification_history, LoadStations(db_file'))
      ]_vars

\* The store could not be written and does not hold the history that is in
\* memory; the second cycle found in memory the route the first cycle
\* recorded, notified nothing, and completed.
C28_SecondCycleUsesMemory ==
    /\ store_faulty
    /\ history_file # File("ok", notification_history)
    /\ Len(outcome) = 2
    /\ outcome[2] = "completed"
    /\ cycle_log[1] # <<>>
    /\ cycle_log[2] = <<>>
    /\ \E u \in DOMAIN notification_history : notification_history[u] # <<>>


\* C29: what the store loads as holds every fingerprint that was saved for a
\* subscriber before the save that was interrupted: the fingerprints of every
\* notification of a cycle but its last (the mark of a notification is saved
\* before the next one is emitted, and the catalog does not change), also
\* after the process died in a save and was started again.
C29_SavedEntriesSurviveCrash ==
    \A c \in 1..Len(cycle_log) :
        \A n \in 1..(Len(cycle_log[c]) - 1) :
            LET e == cycle_log[c][n]
                loaded == LoadNotificationHistory(history_file)
            IN  /\ e.user \in DOMAIN loaded
                /\ Range(RouteIds(e.station)) \subseteq Range(loaded[e.user])


\* C30: a mark removes no fingerprint of any subscriber and leaves those of
\* its candidate in the list of its subscriber, also when another coroutine
\* has recorded a route for the same subscriber while this one was waiting
\* for its send; a fingerprint leaves the history only in the step that ends
\* a cycle, where the reconciliation runs.
C30_NoLostUpdate ==
    [][ /\ \A t \in Tasks :
             MarkStep(t) =>
                /\ \A u \in DOMAIN notification_history :
                      /\ u \in DOMAIN notification_history'
                      /\ Range(notification_history[u])
                            \subseteq Range(notification_history'[u])
                /\ CandUser(t) \in DOMAIN notification_history'
                /\ Range(RouteIds(task[t].cand))
                      \subseteq Range(notification_history'[CandUser(t)])
        /\ (\E u \in DOMAIN notification_history :
               ~(Range(notification_history[u])
                    \subseteq HistoryOf(notification_history', u)))
           => \E t \in Tasks : task[t].pc = "finish" /\ task'[t].pc = "idle"
      ]_vars

\* The two cycles overlap, neither has ended; each has notified the same
\* subscriber of a route that was new, the two routes differ, and the
\* fingerprints of both are in the subscriber's history.
C30_BothFingerprintsKept ==
    /\ outcome = <<"running", "running">>
    /\ \E n \in 1..Len(cycle_log[1]), m \in 1..Len(cycle_log[2]) :
          LET e == cycle_log[1][n]
              f == cycle_log[2][m]
          IN  /\ e.user = f.user
              /\ RouteIds(e.station) # RouteIds(f.station)
              /\ Range(RouteIds(e.station)) \cup Range(RouteIds(f.station))
                    \subseteq HistoryOf(notification_history, e.user)

(***************************************************************************)
(* C31: cleanup_special_characters is idempotent: applied to what it       *)
(* returned for any string, it returns that string again.                  *)
(***************************************************************************)
C31_CleanupIdempotent ==
    Len(fn_result) = 2 => fn_result[2] = fn_result[1]

\* Applied twice to a string that the first application changed in every way:
\* a letter written out, punctuation turned into spaces, spaces collapsed.
C31_CleanedTwice ==
    /\ Len(fn_result) = 2
    /\ fn_call.address = <<"a-uml", "-", "tab">>
    /\ fn_result[1] = <<"a", "e">>

\* What the history holds for subscriber v: no key, or a list.
EntryOf(history, v) == IF v \in DOMAIN history THEN <<history[v]>> ELSE <<>>

\* C32: self.notification_history changes only in a step that comes back
\* from a send and marks (_mark_route_as_notified) or in the step that ends a
\* cycle (_check_deleted_routes): the fetches, the walk, the checks of the
\* callback and the chat handlers for favourites and date filters leave it as
\* it was; and a mark for subscriber u leaves the key and the list of every
\* other subscriber as they were.
C32_OnlyMarkAndReconcileWrite ==
    [][ /\ notification_history' # notification_history
           => \E t \in Tasks : \/ MarkStep(t)
                                \/ (task[t].pc = "finish" /\ task'[t].pc = "idle")
        /\ user_ops' # user_ops => notification_history' = notification_history
        /\ \A t \in Tasks :
              MarkStep(t) =>
                 \A v \in Users \ {CandUser(t)} :
                    EntryOf(notification_history', v) = EntryOf(notification_history, v)
      ]_vars

\* A chat handler has run and u2 was notified and marked, in a process that
\* had loaded a history for u1: u1's list is as it was loaded.
C32_MarkedBesideOtherSubscriber ==
    /\ user_ops = 1
    /\ Len(cycle_log) = 1
    /\ \E n \in 1..Len(cycle_log[1]) :
          /\ cycle_log[1][n].user = "u2"
          /\ Range(RouteIds(cycle_log[1][n].station))
                \subseteq HistoryOf(notification_history, "u2")
    /\ outcome[1] = "running"
    /\ EntryOf(notification_history, "u1") = << <<IdJuly, IdJune>> >>

\* The routes of a catalog, one by one, each as the single_route the callback
\* receives for it.
RECURSIVE RoutesOf(_)
RoutesOf(out) ==
    IF out = <<>> THEN <<>>
    ELSE [n \in 1..Len(Head(out).returns) |-> SingleRoute(Head(out), Head(out).returns[n])]
         \o RoutesOf(Tail(out))

\* C33: when print_routes_for_stations returns its catalog to a cycle, the
\* routes of the catalog are the routes this walk finalized and handed to the
\* callback, each once and in that order, also when the manual update and the
\* job overlap.
C33_CatalogIsWhatTheCycleFinalized ==
    \A t \in Tasks :
        (task[t].pc = "finish" /\ ~task[t].retnone)
            => RoutesOf(output_data) = task[t].walked

\* C34: when a walk has ended, every subscriber without date filter who has
\* in favourites a name S that add_favorite offers was notified of every
\* route of the walk whose origin or destination is the station named S,
\* whether or not cleanup_special_characters changes S (nothing was notified
\* before: the process is new).
C34_OfferedNameIsNotified ==
    \A t \in Tasks :
        task[t].pc = "finish" =>
            \A k \in 1..Len(user_favorites), n \in 1..Len(valid_stations),
               m \in 1..Len(task[t].walked) :
                LET u == user_favorites[k].user
                    S == valid_stations[n].name
                    r == task[t].walked[m]
                IN  ( /\ S \in user_favorites[k].stations
                      /\ u \notin DOMAIN user_date_filters
                      /\ cleanup_special_characters(S)
                            \in {r.origin, r.returns[1].destination} )
                    => \E e \in 1..Len(cycle_log[task[t].c]) :
                          /\ cycle_log[task[t].c][e].user = u
                          /\ cycle_log[task[t].c][e].station.origin = r.origin
                          /\ cycle_log[task[t].c][e].station.returns = r.returns

\* Task t evaluates the origin match for the subscriber of its loop and the
\* candidate is not among the favourites or none of its returns passes the
\* date filter; the same for the destination match.
OriginSuppressed(t) ==
    LET T == task[t]
    IN  /\ T.pc = "cb_user"
        /\ task'[t] # T
        /\ Len(user_favorites) = T.n0
        /\ T.k <= T.n0
        /\ \/ T.route.origin \notin FavoriteStations(t)
           \/ \A n \in 1..Len(T.route.returns) :
                 ~RoutePassesDateFilter(user_date_filters, CandUser(t), T.route.returns[n])

DestSuppressed(t) ==
    LET T == task[t]
    IN  /\ T.pc = "cb_dest"
        /\ task'[t] # T
        /\ T.r <= Len(T.route.returns)
        /\ \/ T.route.returns[T.r].destination \notin FavoriteStations(t)
           \/ ~RoutePassesDateFilter(user_date_filters, CandUser(t), T.route.returns[T.r])

\* C35: a candidate that matches none of the subscriber's favourites, or
\* that the subscriber's date filter suppresses, emits no notification and
\* leaves the history as it was: if it was new for the subscriber it still
\* is after the check.
C35_SuppressedLeavesNoTrace ==
    [][ \A t \in Tasks :
          (OriginSuppressed(t) \/ DestSuppressed(t))
             => /\ cycle_log' = cycle_log
                /\ task'[t].pc \notin {"await_o", "await_d"}
                /\ notification_history' = notification_history
                /\ IsNewRoute(notification_history, CandUser(t), task[t].route)
                      => IsNewRoute(notification_history', CandUser(t), task[t].route)
      ]_vars

\* u1 has A in favourites and a date filter of June; the route A -> B with
\* a window of July went through the callback: nothing was notified in the
\* cycle and the route is still new for u1.
C35_FilteredRouteStillNew ==
    \E t \in Tasks :
        LET T == task[t]
        IN  /\ T.pc = "edge"
            /\ user_ops = 0
            /\ T.walked # <<>>
            /\ \E k \in 1..Len(user_favorites) :
                  /\ user_favorites[k].user = "u1"
                  /\ T.walked[Len(T.walked)].origin \in user_favorites[k].stations
            /\ "u1" \in DOMAIN user_date_filters
            /\ FilteredReturns(user_date_filters, "u1", T.walked[Len(T.walked)]) = <<>>
            /\ cycle_log[T.c] = <<>>
            /\ IsNewRoute(notification_history, "u1", T.walked[Len(T.walked)])

\* C36: no subscriber's list in notification_history holds a fingerprint
\* twice, whatever marks and reconciliations have run and however the cycles
\* were interleaved (the loaded history holds none twice).
C36_NoDuplicateFingerprint ==
    \A u \in DOMAIN notification_history :
        \A a, b \in 1..Len(notification_history[u]) :
            notification_history[u][a] = notification_history[u][b] => a = b

\* Two overlapping cycles have each notified the same subscriber of the same
\* route, the second before the first had marked it, and both have come back
\* from the send and marked: the fingerprint is in the list.
C36_MarkedTwiceKeptOnce ==
    /\ Len(cycle_log) = 2
    /\ \E n \in 1..Len(cycle_log[1]), m \in 1..Len(cycle_log[2]) :
          LET e == cycle_log[1][n]
              f == cycle_log[2][m]
          IN  /\ e.user = f.user
              /\ RouteIds(e.station) = RouteIds(f.station)
              /\ \A t \in Tasks :
                    task[t].pc \in {"await_o", "await_d"}
                       => RouteIds(task[t].cand) # RouteIds(e.station)
              /\ Range(RouteIds(e.station)) \subseteq HistoryOf(notification_history, e.user)

C38_NoEntryWithoutRoutes ==
    /\ \A t \in Tasks :
          (task[t].pc = "finish" /\ ~task[t].retnone)
             => \A n \in 1..Len(output_data) : output_data[n].returns # <<>>
    /\ \A n \in 1..Len(LoadStations(db_file)) : LoadStations(db_file)[n].returns # <<>>

\* C39: when a run of _job_update_database ends, completed or ended by an
\* exception at any step, the next run is scheduled: whenever the job is not
\* running, one run of it is pending.
C39_JobAlwaysRescheduled ==
    /\ [](task["job"].pc = "idle" => job_queue.pending = 1)
    /\ [][ (task["job"].pc # "idle" /\ task'["job"].pc = "idle")
              => job_queue'.pending = job_queue.pending + 1 ]_vars

\* A run of the job has ended by an exception, the job is not running and
\* its next run is pending.
C39_RescheduledAfterFailure ==
    /\ job_queue.last_run = "failed"
    /\ task["job"].pc = "idle"
    /\ job_queue.pending = 1



=============================================================================
